---- MODULE Spec2Model ----
(***************************************************************************)
(* Memory allocation simulator of task 1/memory_management.py:             *)
(* MemoryManager (first-fit / best-fit placement, block splitting,         *)
(* deallocation with coalescing of adjacent free blocks) and PageTable     *)
(* (FIFO page replacement per access, LRU page replacement over a whole    *)
(* access sequence, hit/fault statistics).                                 *)
(***************************************************************************)
EXTENDS Integers, Sequences, FiniteSets, TLC

\* ---------------------------------------------------------------- bounds
MaxPid == 3         \* process ids of the small address space: 1..MaxPid
SmallTotal == 5     \* total_size of the small address space
MaxSize == 3        \* largest request in the small address space
MaxInvalid == 1     \* ill-formed allocate calls admitted per run (SpecAny)
MaxPage == 4        \* page numbers a caller chooses freely: 1..MaxPage
MaxFrames == 3      \* PageTable(num_frames) for num_frames in 1..MaxFrames
MaxAccesses == 4    \* freely chosen accesses per run; the access sequences
                    \* of Scripts are followed to their end beyond that
MaxThreads == 2     \* threads of a counter demonstration: 1..MaxThreads
MaxIter == 2        \* iterations of each thread: 1..MaxIter
MaxCustomers == 2   \* customer threads in free use of BankAccount
MaxAmount == 2      \* amounts and opening balances in free use of
                    \* BankAccount
MaxConns == 3       \* connections the chat server has accepted
MaxRacing == 2      \* connections whose threads interleave freely
MaxMsgs == 1        \* messages a chat client types
MaxRequests == 3    \* requests the task API serves

\* ------------------------------------------------------ program constants
DemoTotal == 512    \* MemoryManager(total_size=512) of the demonstrations
None == 0           \* encoding of Python's None in the process_id field

\* the (process_id, size) requests the demonstrations make
DemoRequests ==
    {<<1, 100>>, <<2, 50>>, <<3, 200>>, <<4, 150>>, <<4, 40>>}

\* the calls of demonstrate_best_fit on MemoryManager(total_size=512)
BestFitDemo ==
    << <<"best_fit", 1, 100>>, <<"best_fit", 2, 50>>, <<"best_fit", 3, 200>>,
       <<"deallocate", 2, 0>>, <<"best_fit", 4, 40>> >>

TotalSizes == {SmallTotal, DemoTotal}

DemoBalance == 1000
DemoDeposit == 100
DemoWithdraw == 50
DemoCustomers == 3
BufferSize == 3
Items == 5
TimeoutTicks == 4
ProducerSleepTicks == 1
ConsumerSleepTicks == 2
ChatNicknames == {"ann", "bob"}
SemPermits == 2
SemThreads == 5
DemoFrames == 3     \* PageTable(num_frames=3) of demonstrate_paging

\* the access sequence of demonstrate_paging
DemoPages == <<1, 2, 3, 4, 1, 2, 5, 1, 2, 3, 4, 5>>

\* the access sequence on which the two policies are compared
ComparePages == <<1, 2, 3, 1, 4>>

Scripts == {DemoPages, ComparePages}

\* requests and process ids a caller passes to a manager of the given size;
\* the small address space also sees the non-positive sizes 0 and -1
Requests(total) ==
    IF total = DemoTotal THEN DemoRequests
    ELSE (1..MaxPid) \X ((0 - 1)..MaxSize)
IllRequests(total) ==
    IF total = DemoTotal THEN {} ELSE Requests(total)
PIDs(total) == {r[1] : r \in Requests(total)}

VARIABLES
    total_size,           \* MemoryManager.total_size
    blocks,               \* MemoryManager.blocks: sequence of MemoryBlock
    allocated_processes,  \* MemoryManager.allocated_processes: pid -> block
    last,                 \* the last call: its name, arguments and result
    invalid,              \* number of ill-formed allocate calls made so far
    demo,                 \* calls of demonstrate_best_fit replayed so far,
                          \* or -1 once the run has left that script
    released,             \* <<start, size>> of the block the last call
                          \* freed, or <<>> when it freed none
    shown,                \* what display_memory printed since the last
                          \* allocate or deallocate, or Nothing
    pt,                   \* the PageTable driven by access_page_fifo
    pt_lru,               \* the PageTable on which access_page_lru runs
    pages,                \* the pages accessed on pt so far, in order; the
                          \* sequence handed to access_page_lru
    out,                  \* what the last access_page_fifo call printed
    arrival,              \* resident page of pt -> number of the access
                          \* that loaded it
    lru,                  \* the access_page_lru call: its position, its
                          \* local frames and page_faults, what it printed
    stats,                \* what display_stats printed since the last
                          \* access, or Nothing
    pc,                   \* the position of a deallocate call that is
                          \* followed statement by statement, or Idle
    running,              \* the demonstration of threading_sync.py that
                          \* is running, or "none"
    shared_counter,       \* the module's shared_counter
    counter_lock,         \* the module's counter_lock: the thread that
                          \* holds it, or 0
    workers,              \* the threads of a counter demonstration:
                          \* position, local temp, iterations made and
                          \* iterations to make
    account,              \* the BankAccount: balance, and the customer
                          \* that holds its lock or 0
    customers,            \* the customer threads: position, the call in
                          \* progress, local current, calls completed
    ledger,               \* the opening balance plus the deposits minus
                          \* the withdrawals written so far
    semaphore,            \* the value of threading.Semaphore(2): permits
                          \* left
    sem_threads,          \* thread id -> position in access_resource
    buffer,               \* the Queue(maxsize=3): its items in order and
                          \* its unfinished_tasks
    p_thread,             \* the producer thread: position, loop index i,
                          \* ticks its sleep has to go
    c_threads,            \* consumer name -> position, item in hand,
                          \* ticks its sleep or its timeout has to go
    consumed,             \* the items taken from the buffer so far, in
                          \* order, each with the consumer that took it
    main,                 \* the main thread's position in its wait
    clients,              \* tcp_server.clients: the connections, in order
    nicknames,            \* tcp_server.nicknames
    handlers,             \* connection -> the calls in progress in its
                          \* handle_client thread
    sockets,              \* connection -> the nickname its client gives,
                          \* whether the peer and the server have closed
                          \* it, the messages the client has yet to type
    relayed,              \* what the last finished relay of a chat
                          \* message did, or Nothing
    tasks,                \* rest_server.tasks: id of each task and the
                          \* request that created it, in list order
    task_id_counter,      \* rest_server.task_id_counter
    requests,             \* the requests being served: position and
                          \* locals of each
    assigned              \* every id given to a created task so far, in
                          \* the order the tasks were appended

memvars == <<total_size, blocks, allocated_processes, last, invalid, demo,
             released, shown>>
pagvars == <<pt, pt_lru, pages, out, arrival, lru, stats>>
cntvars == <<shared_counter, counter_lock, workers>>
bnkvars == <<account, customers, ledger>>
semvars == <<semaphore, sem_threads>>
prdvars == <<buffer, p_thread, c_threads, consumed, main>>
chtvars == <<clients, nicknames, handlers, sockets, relayed>>
tskvars == <<tasks, task_id_counter, requests, assigned>>
netvars == <<chtvars, tskvars>>
thrvars == <<running, cntvars, bnkvars, semvars, prdvars, netvars>>
othvars == <<pc, thrvars>>
vars == <<memvars, pagvars, othvars>>

\* ------------------------------------------------------------ MemoryBlock
MemoryBlock(start, size, process_id) ==
    [start |-> start, size |-> size, process_id |-> process_id,
     is_free |-> (process_id = None)]

\* dict assignment d[k] = v and del d[k]
DictSet(d, k, v) == [q \in (DOMAIN d) \cup {k} |-> IF q = k THEN v ELSE d[q]]
DictDel(d, k) == [q \in (DOMAIN d) \ {k} |-> d[q]]

\* list slice assignment l[i:i+1] = [a, b]   (i is 1-based here)
SpliceTwo(l, i, a, b) ==
    SubSeq(l, 1, i - 1) \o <<a, b>> \o SubSeq(l, i + 1, Len(l))

\* list.pop(i)   (i is 1-based here)
Pop(l, i) == SubSeq(l, 1, i - 1) \o SubSeq(l, i + 1, Len(l))

\* ------------------------------------------------------- allocate_first_fit
\* slip: the size test is missing, the first free block is taken
RECURSIVE FirstFitScanAnyFree(_, _, _)
FirstFitScanAnyFree(bs, size, i) ==
    IF i > Len(bs) THEN 0
    ELSE IF bs[i].is_free THEN i
    ELSE FirstFitScanAnyFree(bs, size, i + 1)

\* slip: the scan starts at the high end of the list
RECURSIVE FirstFitScanDown(_, _, _)
FirstFitScanDown(bs, size, i) ==
    LET k == Len(bs) + 1 - i IN
    IF i > Len(bs) THEN 0
    ELSE IF bs[k].is_free /\ bs[k].size >= size THEN k
    ELSE FirstFitScanDown(bs, size, i + 1)

\* the for loop of allocate_first_fit: index of the first free block with
\* block.size >= size, scanning from position i; 0 when the loop falls through
RECURSIVE FirstFitScan(_, _, _)
FirstFitScan(bs, size, i) ==
    IF i > Len(bs) THEN 0
    ELSE IF bs[i].is_free /\ bs[i].size >= size THEN i
    ELSE FirstFitScan(bs, size, i + 1)

\* slip: the remainder keeps the size of the whole block
PlaceFirstFitKeepsSize(bs, i, process_id, size) ==
    LET block == bs[i]
        allocated == MemoryBlock(block.start, size, process_id)
    IN  IF block.size > size
        THEN SpliceTwo(bs, i, allocated,
                       MemoryBlock(block.start + size, block.size, None))
        ELSE [bs EXCEPT ![i] = allocated]

\* body of the if in allocate_first_fit: split or take the whole block
PlaceFirstFit(bs, i, process_id, size) ==
    LET block == bs[i]
        allocated == MemoryBlock(block.start, size, process_id)
    IN  IF block.size > size
        THEN SpliceTwo(bs, i, allocated,
                       MemoryBlock(block.start + size, block.size - size, None))
        ELSE [bs EXCEPT ![i] = allocated]

\* -------------------------------------------------------- allocate_best_fit
\* slip: block.size <= best_size, the last of several equal gaps wins
RECURSIVE BestFitScanLastTie(_, _, _, _, _)
BestFitScanLastTie(bs, size, i, best_idx, best_size) ==
    IF i > Len(bs) THEN best_idx
    ELSE IF bs[i].is_free /\ bs[i].size >= size
            /\ (best_idx = 0 \/ bs[i].size <= best_size)
         THEN BestFitScanLastTie(bs, size, i + 1, i, bs[i].size)
         ELSE BestFitScanLastTie(bs, size, i + 1, best_idx, best_size)

\* slip: block.size > best_size, the largest gap wins
RECURSIVE BestFitScanLargest(_, _, _, _, _)
BestFitScanLargest(bs, size, i, best_idx, best_size) ==
    IF i > Len(bs) THEN best_idx
    ELSE IF bs[i].is_free /\ bs[i].size >= size
            /\ (best_idx = 0 \/ bs[i].size > best_size)
         THEN BestFitScanLargest(bs, size, i + 1, i, bs[i].size)
         ELSE BestFitScanLargest(bs, size, i + 1, best_idx, best_size)

\* slip: block.size > size, a gap of exactly the requested size is passed
RECURSIVE BestFitScanStrict(_, _, _, _, _)
BestFitScanStrict(bs, size, i, best_idx, best_size) ==
    IF i > Len(bs) THEN best_idx
    ELSE IF bs[i].is_free /\ bs[i].size > size
            /\ (best_idx = 0 \/ bs[i].size < best_size)
         THEN BestFitScanStrict(bs, size, i + 1, i, bs[i].size)
         ELSE BestFitScanStrict(bs, size, i + 1, best_idx, best_size)

\* the for loop of allocate_best_fit; best_idx = 0 stands for -1, in which
\* case best_size is float('inf') and every size is below it
RECURSIVE BestFitScan(_, _, _, _, _)
BestFitScan(bs, size, i, best_idx, best_size) ==
    IF i > Len(bs) THEN best_idx
    ELSE IF bs[i].is_free /\ bs[i].size >= size
            /\ (best_idx = 0 \/ bs[i].size < best_size)
         THEN BestFitScan(bs, size, i + 1, i, bs[i].size)
         ELSE BestFitScan(bs, size, i + 1, best_idx, best_size)

\* slip: the remainder is appended to the list instead of spliced in
PlaceBestFitAppends(bs, best_idx, process_id, size) ==
    LET block == bs[best_idx]
        allocated == MemoryBlock(block.start, size, process_id)
    IN  IF block.size > size
        THEN Append([bs EXCEPT ![best_idx] = allocated],
                    MemoryBlock(block.start + size, block.size - size, None))
        ELSE [bs EXCEPT ![best_idx] = allocated]

PlaceBestFit(bs, best_idx, process_id, size) ==
    LET block == bs[best_idx]
        allocated == MemoryBlock(block.start, size, process_id)
    IN  IF block.size > size
        THEN SpliceTwo(bs, best_idx, allocated,
                       MemoryBlock(block.start + size, block.size - size, None))
        ELSE [bs EXCEPT ![best_idx] = allocated]

\* ---------------------------------------------------------------- _coalesce
\* one pass of the while loop per call; merges counts the merge steps done
RECURSIVE CoalesceLoop(_, _, _)
CoalesceLoop(bs, index, merges) ==
    LET mergeNext == index < Len(bs)
                     /\ bs[index].is_free /\ bs[index + 1].is_free
        bs1 == IF mergeNext
               THEN Pop([bs EXCEPT ![index].size = @ + bs[index + 1].size],
                        index + 1)
               ELSE bs
        mergePrev == index > 1
                     /\ bs1[index - 1].is_free /\ bs1[index].is_free
        bs2 == IF mergePrev
               THEN Pop([bs1 EXCEPT ![index - 1].size = @ + bs1[index].size],
                        index)
               ELSE bs1
        index2 == IF mergePrev THEN index - 1 ELSE index
        merges2 == merges + (IF mergeNext THEN 1 ELSE 0)
                          + (IF mergePrev THEN 1 ELSE 0)
    IN  IF mergeNext \/ mergePrev
        THEN CoalesceLoop(bs2, index2, merges2)
        ELSE [blocks |-> bs2, merges |-> merges2]

\* slip: only the successor is merged, the predecessor is never looked at
RECURSIVE CoalesceNextOnly(_, _)
CoalesceNextOnly(bs, index) ==
    IF index < Len(bs) /\ bs[index].is_free /\ bs[index + 1].is_free
    THEN CoalesceNextOnly(
             Pop([bs EXCEPT ![index].size = @ + bs[index + 1].size], index + 1),
             index)
    ELSE [blocks |-> bs, merges |-> 0]

\* slip: only the predecessor is merged, the successor is never looked at
RECURSIVE CoalescePrevOnly(_, _)
CoalescePrevOnly(bs, index) ==
    IF index > 1 /\ bs[index - 1].is_free /\ bs[index].is_free
    THEN CoalescePrevOnly(
             Pop([bs EXCEPT ![index - 1].size = @ + bs[index].size], index),
             index - 1)
    ELSE [blocks |-> bs, merges |-> 0]

\* slip: the successor is merged without looking at its is_free flag
CoalesceSwallowsNext(bs, index) ==
    IF index < Len(bs) /\ ~bs[index + 1].is_free
    THEN CoalesceLoop(
             Pop([bs EXCEPT ![index].size = @ + bs[index + 1].size], index + 1),
             index, 1)
    ELSE CoalesceLoop(bs, index, 0)

\* slip: nothing is merged unless both neighbours are free
CoalesceWhenEnclosed(bs, index) ==
    IF /\ index > 1 /\ index < Len(bs)
       /\ bs[index - 1].is_free /\ bs[index + 1].is_free
    THEN CoalesceLoop(bs, index, 0)
    ELSE [blocks |-> bs, merges |-> 0]

_coalesce(bs, index) == CoalesceLoop(bs, index, 0)

\* --------------------------------------------------------------- deallocate
\* the for loop of deallocate: first position whose process_id matches
RECURSIVE OwnerScan(_, _, _)
OwnerScan(bs, process_id, i) ==
    IF i > Len(bs) THEN 0
    ELSE IF bs[i].process_id = process_id THEN i
    ELSE OwnerScan(bs, process_id, i + 1)

\* -------------------------------------------------------------- PageTable
Nothing == [printed |-> FALSE]

PageTable(num_frames) ==
    [num_frames |-> num_frames,
     frames |-> [i \in 1..num_frames |-> None],
     page_faults |-> 0,
     page_hits |-> 0]

\* x in s, s.index(x), s.remove(x) of a Python list
In(x, s) == \E i \in 1..Len(s) : s[i] = x
Index(s, x) == CHOOSE i \in 1..Len(s) :
                   s[i] = x /\ \A j \in 1..(i - 1) : s[j] # x
Remove(s, x) == Pop(s, Index(s, x))

\* f"{x:.1f}" of x = num / den * 100, as the integer number of tenths
\* (a tie needs a denominator that is a multiple of 16: none occurs within
\* the bounds)
Percent1(num, den) == (2 * 1000 * num + den) \div (2 * den)

\* the FIFO and LRU tables and the idle LRU call of a fresh paging session
PagingInit(num_frames) ==
    /\ pt = PageTable(num_frames)
    /\ pt_lru = PageTable(num_frames)
    /\ pages = <<>>
    /\ out = Nothing
    /\ arrival = <<>>
    /\ lru = [pc |-> "idle"]
    /\ stats = Nothing

\* ------------------------------------------------------------------- state
\* an allocate call is well formed when the size is positive and the process
\* id holds no block (neither in the index nor in the block list)
WellFormed(process_id, size) ==
    /\ size > 0
    /\ process_id \notin DOMAIN allocated_processes
    /\ \A i \in 1..Len(blocks) : blocks[i].process_id # process_id

Call(op, process_id, size, ok, merges) ==
    [op |-> op, pid |-> process_id, size |-> size, ok |-> ok,
     merges |-> merges]

\* no call is being followed statement by statement
Idle == [at |-> "idle"]
\* threading_sync.py as loaded: no demonstration runs
CounterIdle == shared_counter = 0 /\ counter_lock = 0 /\ workers = <<>>
BankIdle == account = <<>> /\ customers = <<>> /\ ledger = 0
SemaphoreIdle == semaphore = 0 /\ sem_threads = <<>>
ProducerConsumerIdle ==
    /\ buffer = <<>> /\ p_thread = <<>> /\ c_threads = <<>>
    /\ consumed = <<>> /\ main = "none"
\* task 2 as loaded: no server runs
ChatIdle ==
    /\ clients = <<>> /\ nicknames = <<>> /\ handlers = <<>>
    /\ sockets = <<>> /\ relayed = [printed |-> FALSE]
TasksIdle ==
    /\ tasks = <<>> /\ task_id_counter = 1 /\ requests = <<>>
    /\ assigned = <<>>
NetIdle == ChatIdle /\ TasksIdle
OthIdle ==
    /\ pc = Idle /\ running = "none"
    /\ CounterIdle /\ BankIdle /\ SemaphoreIdle /\ ProducerConsumerIdle
    /\ NetIdle

Init ==
    /\ total_size \in TotalSizes
    /\ blocks = <<MemoryBlock(0, total_size, None)>>
    /\ allocated_processes = <<>>
    /\ last = Call("init", None, 0, TRUE, 0)
    /\ invalid = 0
    /\ demo = 0
    /\ released = <<>>
    /\ shown = Nothing
    /\ PagingInit(DemoFrames)
    /\ OthIdle

\* the run stays on the script of demonstrate_best_fit while each call is the
\* script's next call
Replay(op, process_id, size) ==
    demo' = IF /\ total_size = DemoTotal
               /\ demo >= 0 /\ demo < Len(BestFitDemo)
               /\ BestFitDemo[demo + 1] = <<op, process_id, size>>
            THEN demo + 1
            ELSE 0 - 1

\* the extent a successful deallocate(process_id) is about to free
Freeing(process_id) ==
    LET i == OwnerScan(blocks, process_id, 1) IN
    released' = IF process_id \in DOMAIN allocated_processes /\ i # 0
                THEN <<blocks[i].start, blocks[i].size>>
                ELSE <<>>

allocate_first_fit(process_id, size) ==
    LET i == FirstFitScan(blocks, size, 1) IN
    /\ IF i # 0
       THEN /\ blocks' = PlaceFirstFit(blocks, i, process_id, size)
            /\ allocated_processes' =
                   DictSet(allocated_processes, process_id,
                           MemoryBlock(blocks[i].start, size, process_id))
            /\ last' = Call("first_fit", process_id, size, TRUE, 0)
       ELSE /\ UNCHANGED <<blocks, allocated_processes>>
            /\ last' = Call("first_fit", process_id, size, FALSE, 0)
    /\ UNCHANGED total_size

allocate_best_fit(process_id, size) ==
    LET best_idx == BestFitScan(blocks, size, 1, 0, 0) IN
    /\ IF best_idx # 0
       THEN /\ blocks' = PlaceBestFit(blocks, best_idx, process_id, size)
            /\ allocated_processes' =
                   DictSet(allocated_processes, process_id,
                           MemoryBlock(blocks[best_idx].start, size, process_id))
            /\ last' = Call("best_fit", process_id, size, TRUE, 0)
       ELSE /\ UNCHANGED <<blocks, allocated_processes>>
            /\ last' = Call("best_fit", process_id, size, FALSE, 0)
    /\ UNCHANGED total_size

\* slip: the unknown-process branch returns True
deallocateReportsSuccess(process_id) ==
    LET i == OwnerScan(blocks, process_id, 1)
        freed == [blocks EXCEPT ![i].is_free = TRUE, ![i].process_id = None]
        co == _coalesce(freed, i)
    IN
    /\ IF process_id \notin DOMAIN allocated_processes
       THEN /\ UNCHANGED <<blocks, allocated_processes>>
            /\ last' = Call("deallocate", process_id, 0, TRUE, 0)
       ELSE IF i # 0
       THEN /\ blocks' = co.blocks
            /\ allocated_processes' = DictDel(allocated_processes, process_id)
            /\ last' = Call("deallocate", process_id, 0, TRUE, co.merges)
       ELSE /\ UNCHANGED <<blocks, allocated_processes>>
            /\ last' = Call("deallocate", process_id, 0, FALSE, 0)
    /\ UNCHANGED total_size

deallocate(process_id) ==
    LET i == OwnerScan(blocks, process_id, 1)
        freed == [blocks EXCEPT ![i].is_free = TRUE, ![i].process_id = None]
        co == _coalesce(freed, i)
    IN
    /\ IF process_id \notin DOMAIN allocated_processes
       THEN /\ UNCHANGED <<blocks, allocated_processes>>
            /\ last' = Call("deallocate", process_id, 0, FALSE, 0)
       ELSE IF i # 0
       THEN /\ blocks' = co.blocks
            /\ allocated_processes' = DictDel(allocated_processes, process_id)
            /\ last' = Call("deallocate", process_id, 0, TRUE, co.merges)
       ELSE /\ UNCHANGED <<blocks, allocated_processes>>
            /\ last' = Call("deallocate", process_id, 0, FALSE, 0)
    /\ UNCHANGED total_size

\* The manager and the page tables share no state, and a demonstration
\* drives one of them from start to end: a run works on the manager while
\* the page tables are as constructed, or on the page tables while the
\* manager is as constructed.
PagingIdle == pages = <<>> /\ lru.pc = "idle" /\ ~stats.printed
ManagerIdle == last.op = "init" /\ ~shown.printed

\* slip: the map merges the free blocks it walks over
display_memoryMerges ==
    /\ shown' = [printed |-> TRUE, rows |-> <<>>, used |-> 0,
                 free |-> total_size, fragmentation |-> 1]
    /\ blocks' = <<MemoryBlock(0, total_size, None)>>
    /\ UNCHANGED <<total_size, allocated_processes>>

\* MemoryManager.display_memory: one row per block (start, end, status, bar
\* length), then the used and free totals and the number of free blocks
MemoryMap(bs, total) ==
    LET free == {i \in 1..Len(bs) : bs[i].is_free}
        Sum[S \in SUBSET free] ==
            IF S = {} THEN 0
            ELSE LET i == CHOOSE j \in S : TRUE
                 IN  bs[i].size + Sum[S \ {i}]
    IN
    [printed |-> TRUE,
     rows |-> [i \in 1..Len(bs) |->
                  [from |-> bs[i].start,
                   to |-> bs[i].start + bs[i].size,
                   status |-> IF bs[i].is_free THEN "FREE"
                              ELSE bs[i].process_id,
                   bar |-> IF bs[i].size <= 0 THEN 0
                           ELSE (bs[i].size * 40) \div total]],
     free |-> Sum[free],
     used |-> total - Sum[free],
     fragmentation |-> Cardinality(free)]

display_memory ==
    /\ shown' = MemoryMap(blocks, total_size)
    /\ UNCHANGED <<total_size, blocks, allocated_processes>>

DisplayMemoryCall ==
    /\ PagingIdle
    /\ display_memory
    /\ UNCHANGED <<last, invalid, demo, released, pagvars, othvars>>

\* calls that respect the caller-side contract of allocate
FirstFitCall ==
    /\ PagingIdle
    /\ \E r \in Requests(total_size) :
        /\ WellFormed(r[1], r[2])
        /\ allocate_first_fit(r[1], r[2])
        /\ Replay("first_fit", r[1], r[2])
        /\ released' = <<>>
        /\ shown' = Nothing
        /\ UNCHANGED <<invalid, pagvars, othvars>>

BestFitCall ==
    /\ PagingIdle
    /\ \E r \in Requests(total_size) :
        /\ WellFormed(r[1], r[2])
        /\ allocate_best_fit(r[1], r[2])
        /\ Replay("best_fit", r[1], r[2])
        /\ released' = <<>>
        /\ shown' = Nothing
        /\ UNCHANGED <<invalid, pagvars, othvars>>

DeallocateCall ==
    /\ PagingIdle
    /\ \E p \in PIDs(total_size) :
        /\ deallocate(p)
        /\ Replay("deallocate", p, 0)
        /\ Freeing(p)
        /\ shown' = Nothing
        /\ UNCHANGED <<invalid, pagvars, othvars>>

\* calls the code accepts although they break the contract: a non-positive
\* size, or a process id that already owns a block (the demonstrations make
\* no such call, so these are drawn in the small address space only)
IllFormedFirstFitCall ==
    /\ PagingIdle
    /\ \E r \in IllRequests(total_size) :
        /\ ~WellFormed(r[1], r[2])
        /\ invalid < MaxInvalid
        /\ invalid' = invalid + 1
        /\ allocate_first_fit(r[1], r[2])
        /\ Replay("first_fit", r[1], r[2])
        /\ released' = <<>>
        /\ shown' = Nothing
        /\ UNCHANGED <<pagvars, othvars>>

IllFormedBestFitCall ==
    /\ PagingIdle
    /\ \E r \in IllRequests(total_size) :
        /\ ~WellFormed(r[1], r[2])
        /\ invalid < MaxInvalid
        /\ invalid' = invalid + 1
        /\ allocate_best_fit(r[1], r[2])
        /\ Replay("best_fit", r[1], r[2])
        /\ released' = <<>>
        /\ shown' = Nothing
        /\ UNCHANGED <<pagvars, othvars>>

Next == FirstFitCall \/ BestFitCall \/ DeallocateCall

NextAny == Next \/ IllFormedFirstFitCall \/ IllFormedBestFitCall

\* every caller validates its requests
Spec == Init /\ [][Next]_vars

\* callers may pass anything the code does not reject
SpecAny == Init /\ [][NextAny]_vars

\* ----------------------------------------------------------------- paging
\* slip: a full table gives up its newest page instead of its oldest
FifoEvictNewest(t, page) ==
    IF In(page, t.frames)
    THEN [pt |-> [t EXCEPT !.page_hits = @ + 1],
          out |-> [printed |-> TRUE, page |-> page, hit |-> TRUE,
                   replaced |-> None]]
    ELSE IF In(None, t.frames)
    THEN [pt |-> [t EXCEPT !.page_faults = @ + 1,
                           !.frames[Index(t.frames, None)] = page],
          out |-> [printed |-> TRUE, page |-> page, hit |-> FALSE,
                   replaced |-> None]]
    ELSE [pt |-> [t EXCEPT !.page_faults = @ + 1,
                           !.frames = Append(SubSeq(@, 1, Len(@) - 1), page)],
          out |-> [printed |-> TRUE, page |-> page, hit |-> FALSE,
                   replaced |-> t.frames[Len(t.frames)]]]

\* slip: a hit moves the page to the back of the queue
FifoHitMovesToBack(t, page) ==
    IF In(page, t.frames)
    THEN [pt |-> [t EXCEPT !.page_hits = @ + 1,
                           !.frames = Append(Remove(@, page), page)],
          out |-> [printed |-> TRUE, page |-> page, hit |-> TRUE,
                   replaced |-> None]]
    ELSE IF In(None, t.frames)
    THEN [pt |-> [t EXCEPT !.page_faults = @ + 1,
                           !.frames[Index(t.frames, None)] = page],
          out |-> [printed |-> TRUE, page |-> page, hit |-> FALSE,
                   replaced |-> None]]
    ELSE [pt |-> [t EXCEPT !.page_faults = @ + 1,
                           !.frames = Append(Tail(@), page)],
          out |-> [printed |-> TRUE, page |-> page, hit |-> FALSE,
                   replaced |-> Head(t.frames)]]

\* slip: a fault on a full table appends without removing a page
FifoNeverEvicts(t, page) ==
    IF In(page, t.frames)
    THEN [pt |-> [t EXCEPT !.page_hits = @ + 1],
          out |-> [printed |-> TRUE, page |-> page, hit |-> TRUE,
                   replaced |-> None]]
    ELSE IF In(None, t.frames)
    THEN [pt |-> [t EXCEPT !.page_faults = @ + 1,
                           !.frames[Index(t.frames, None)] = page],
          out |-> [printed |-> TRUE, page |-> page, hit |-> FALSE,
                   replaced |-> None]]
    ELSE [pt |-> [t EXCEPT !.page_faults = @ + 1,
                           !.frames = Append(@, page)],
          out |-> [printed |-> TRUE, page |-> page, hit |-> FALSE,
                   replaced |-> Head(t.frames)]]

\* slip: a fault with an empty slot loads into the highest empty slot
FifoLoadsLastEmpty(t, page) ==
    IF In(page, t.frames)
    THEN [pt |-> [t EXCEPT !.page_hits = @ + 1],
          out |-> [printed |-> TRUE, page |-> page, hit |-> TRUE,
                   replaced |-> None]]
    ELSE IF In(None, t.frames)
    THEN [pt |-> [t EXCEPT !.page_faults = @ + 1,
                           !.frames[CHOOSE i \in 1..Len(t.frames) :
                                       /\ t.frames[i] = None
                                       /\ \A j \in (i + 1)..Len(t.frames) :
                                              t.frames[j] # None] = page],
          out |-> [printed |-> TRUE, page |-> page, hit |-> FALSE,
                   replaced |-> None]]
    ELSE [pt |-> [t EXCEPT !.page_faults = @ + 1,
                           !.frames = Append(Tail(@), page)],
          out |-> [printed |-> TRUE, page |-> page, hit |-> FALSE,
                   replaced |-> Head(t.frames)]]

\* PageTable.access_page_fifo on table t: the table after the call and the
\* line it prints (HIT, FAULT, or FAULT with the page replaced)
FifoAccess(t, page) ==
    IF In(page, t.frames)
    THEN [pt |-> [t EXCEPT !.page_hits = @ + 1],
          out |-> [printed |-> TRUE, page |-> page, hit |-> TRUE,
                   replaced |-> None]]
    ELSE IF In(None, t.frames)
    THEN [pt |-> [t EXCEPT !.page_faults = @ + 1,
                           !.frames[Index(t.frames, None)] = page],
          out |-> [printed |-> TRUE, page |-> page, hit |-> FALSE,
                   replaced |-> None]]
    ELSE [pt |-> [t EXCEPT !.page_faults = @ + 1,
                           !.frames = Append(Tail(@), page)],
          out |-> [printed |-> TRUE, page |-> page, hit |-> FALSE,
                   replaced |-> Head(t.frames)]]

access_page_fifo(page) ==
    /\ pt' = FifoAccess(pt, page).pt
    /\ out' = FifoAccess(pt, page).out

\* slip: a hit leaves the recency order as it is
LruHitKeepsOrder(l, num_frames, page) ==
    IF In(page, l.frames)
    THEN [l EXCEPT !.k = @ + 1,
                   !.hit = TRUE, !.replaced = None]
    ELSE IF Len(l.frames) < num_frames
    THEN [l EXCEPT !.k = @ + 1, !.page_faults = @ + 1,
                   !.frames = Append(@, page),
                   !.hit = FALSE, !.replaced = None]
    ELSE [l EXCEPT !.k = @ + 1, !.page_faults = @ + 1,
                   !.frames = Append(Tail(@), page),
                   !.hit = FALSE, !.replaced = Head(l.frames)]

\* slip: a full list gives up its most recently used page
LruEvictsNewest(l, num_frames, page) ==
    IF In(page, l.frames)
    THEN [l EXCEPT !.k = @ + 1,
                   !.frames = Append(Remove(@, page), page),
                   !.hit = TRUE, !.replaced = None]
    ELSE IF Len(l.frames) < num_frames
    THEN [l EXCEPT !.k = @ + 1, !.page_faults = @ + 1,
                   !.frames = Append(@, page),
                   !.hit = FALSE, !.replaced = None]
    ELSE [l EXCEPT !.k = @ + 1, !.page_faults = @ + 1,
                   !.frames = Append(SubSeq(@, 1, Len(@) - 1), page),
                   !.hit = FALSE, !.replaced = l.frames[Len(l.frames)]]

\* one iteration of the loop of PageTable.access_page_lru on the locals l
LruAccess(l, num_frames, page) ==
    IF In(page, l.frames)
    THEN [l EXCEPT !.k = @ + 1,
                   !.frames = Append(Remove(@, page), page),
                   !.hit = TRUE, !.replaced = None]
    ELSE IF Len(l.frames) < num_frames
    THEN [l EXCEPT !.k = @ + 1, !.page_faults = @ + 1,
                   !.frames = Append(@, page),
                   !.hit = FALSE, !.replaced = None]
    ELSE [l EXCEPT !.k = @ + 1, !.page_faults = @ + 1,
                   !.frames = Append(Tail(@), page),
                   !.hit = FALSE, !.replaced = Head(l.frames)]

\* the two lines access_page_lru prints after its loop; the second divides
\* by len(pages_sequence) and raises ZeroDivisionError on an empty sequence
LruReport(l, n) ==
    IF n = 0
    THEN [l EXCEPT !.pc = "ZeroDivisionError"]
    ELSE [l EXCEPT !.pc = "done",
                   !.hit_rate = Percent1(n - l.page_faults, n)]

\* slip: the counters start afresh once they have been printed
display_statsResets ==
    /\ stats' = [printed |-> TRUE, frames |-> pt.frames,
                 page_hits |-> pt.page_hits, page_faults |-> pt.page_faults,
                 hit_rate |-> 0]
    /\ pt' = [pt EXCEPT !.page_hits = 0, !.page_faults = 0]
    /\ UNCHANGED <<pt_lru, pages, out, arrival, lru>>

\* what PageTable.display_stats prints for table t
Stats(t) ==
    LET total == t.page_hits + t.page_faults IN
    [printed |-> TRUE, frames |-> t.frames, page_hits |-> t.page_hits,
     page_faults |-> t.page_faults,
     hit_rate |-> IF total > 0 THEN Percent1(t.page_hits, total) ELSE 0]

display_stats ==
    /\ stats' = Stats(pt)
    /\ UNCHANGED <<pt, pt_lru, pages, out, arrival, lru>>

\* the pages the next access may name
NextPages ==
    (IF Len(pages) < MaxAccesses THEN 1..MaxPage ELSE {})
    \cup {s[Len(pages) + 1] :
             s \in {q \in Scripts : /\ Len(q) > Len(pages)
                                    /\ SubSeq(q, 1, Len(pages)) = pages}}

\* the arrival bookkeeping after an access: a page that was loaded arrives
\* now, the page that was replaced leaves
Arrive(page, o) ==
    IF o.hit THEN arrival
    ELSE [q \in ((DOMAIN arrival) \ {o.replaced}) \cup {page} |->
              IF q = page THEN Len(pages) + 1 ELSE arrival[q]]

\* pt.access_page_fifo(page), as in the loop of demonstrate_paging
FifoCall ==
    /\ ManagerIdle
    /\ lru.pc = "idle"
    /\ \E page \in NextPages :
           /\ access_page_fifo(page)
           /\ pages' = Append(pages, page)
           /\ arrival' = Arrive(page, out')
    /\ stats' = Nothing
    /\ UNCHANGED <<pt_lru, lru, memvars, othvars>>

\* pt.display_stats()
DisplayStatsCall ==
    /\ ManagerIdle
    /\ lru.pc = "idle"
    /\ display_stats
    /\ UNCHANGED <<memvars, othvars>>

\* pt_lru.access_page_lru(pages) is entered: lines 165-166
LruCall ==
    /\ ManagerIdle
    /\ lru.pc = "idle"
    /\ lru' = [pc |-> "loop", frames |-> <<>>, page_faults |-> 0, k |-> 0,
               hit |-> FALSE, replaced |-> None, hit_rate |-> 0]
    /\ UNCHANGED <<pt, pt_lru, pages, out, arrival, stats, memvars, othvars>>

\* the loop body for the next page of the sequence
LruStep ==
    /\ lru.pc = "loop"
    /\ lru.k < Len(pages)
    /\ lru' = LruAccess(lru, pt_lru.num_frames, pages[lru.k + 1])
    /\ UNCHANGED <<pt, pt_lru, pages, out, arrival, stats, memvars, othvars>>

\* the loop is over: the totals are printed and the call returns or raises
LruReturn ==
    /\ lru.pc = "loop"
    /\ lru.k = Len(pages)
    /\ lru' = LruReport(lru, Len(pages))
    /\ UNCHANGED <<pt, pt_lru, pages, out, arrival, stats, memvars, othvars>>

InitPaging ==
    /\ total_size = SmallTotal
    /\ blocks = <<MemoryBlock(0, total_size, None)>>
    /\ allocated_processes = <<>>
    /\ last = Call("init", None, 0, TRUE, 0)
    /\ invalid = 0
    /\ demo = 0
    /\ released = <<>>
    /\ shown = Nothing
    /\ \E n \in 1..MaxFrames : PagingInit(n)
    /\ OthIdle

NextPaging == FifoCall \/ DisplayStatsCall \/ LruCall \/ LruStep \/ LruReturn

\* a paging session: FIFO accesses on pt, then one LRU run over the same
\* sequence on pt_lru
SpecPaging == InitPaging /\ [][NextPaging]_vars

\* the objects of the demonstrations, MemoryManager(total_size=512) and
\* PageTable(num_frames=3), with their commands and their two displays
Constructed ==
    /\ total_size = DemoTotal
    /\ blocks = <<MemoryBlock(0, total_size, None)>>
    /\ allocated_processes = <<>>
    /\ last = Call("init", None, 0, TRUE, 0)
    /\ invalid = 0
    /\ demo = 0
    /\ released = <<>>
    /\ shown = Nothing
    /\ PagingInit(DemoFrames)

InitQuery == Constructed /\ OthIdle

NextQuery == Next \/ DisplayMemoryCall \/ NextPaging

SpecQuery == InitQuery /\ [][NextQuery]_vars

\* ------------------------------------------ threading_sync.py: counters
\* slip: the loop of increment_unsafe runs once more than asked
increment_unsafeOnceMore(t) ==
    LET w == workers[t] IN
    \/ /\ w.pc = "loop"
       /\ workers' = [workers EXCEPT ![t].pc =
                         IF w.i <= w.n THEN "read" ELSE "done"]
       /\ UNCHANGED <<shared_counter, counter_lock>>
    \/ /\ w.pc = "read"
       /\ workers' = [workers EXCEPT ![t].temp = shared_counter,
                                     ![t].pc = "write"]
       /\ UNCHANGED <<shared_counter, counter_lock>>
    \/ /\ w.pc = "write"
       /\ shared_counter' = w.temp + 1
       /\ workers' = [workers EXCEPT ![t].i = @ + 1, ![t].pc = "loop"]
       /\ UNCHANGED counter_lock

\* one step of thread t in increment_unsafe: the loop test, the read of
\* shared_counter into temp, or the write of temp + 1
increment_unsafe(t) ==
    LET w == workers[t] IN
    \/ /\ w.pc = "loop"
       /\ workers' = [workers EXCEPT ![t].pc =
                         IF w.i < w.n THEN "read" ELSE "done"]
       /\ UNCHANGED <<shared_counter, counter_lock>>
    \/ /\ w.pc = "read"
       /\ workers' = [workers EXCEPT ![t].temp = shared_counter,
                                     ![t].pc = "write"]
       /\ UNCHANGED <<shared_counter, counter_lock>>
    \/ /\ w.pc = "write"
       /\ shared_counter' = w.temp + 1
       /\ workers' = [workers EXCEPT ![t].i = @ + 1, ![t].pc = "loop"]
       /\ UNCHANGED counter_lock

\* slip: the with statement does not wait for the lock
increment_safeNoWait(t) ==
    LET w == workers[t] IN
    \/ /\ w.pc = "loop"
       /\ workers' = [workers EXCEPT ![t].pc =
                         IF w.i < w.n THEN "acquire" ELSE "done"]
       /\ UNCHANGED <<shared_counter, counter_lock>>
    \/ /\ w.pc = "acquire"
       /\ counter_lock' = t
       /\ workers' = [workers EXCEPT ![t].pc = "read"]
       /\ UNCHANGED shared_counter
    \/ /\ w.pc = "read"
       /\ workers' = [workers EXCEPT ![t].temp = shared_counter,
                                     ![t].pc = "write"]
       /\ UNCHANGED <<shared_counter, counter_lock>>
    \/ /\ w.pc = "write"
       /\ shared_counter' = w.temp + 1
       /\ workers' = [workers EXCEPT ![t].pc = "release"]
       /\ UNCHANGED counter_lock
    \/ /\ w.pc = "release"
       /\ counter_lock' = 0
       /\ workers' = [workers EXCEPT ![t].i = @ + 1, ![t].pc = "loop"]
       /\ UNCHANGED shared_counter

\* one step of thread t in increment_safe: the loop test, the entry of
\* the with block (waits until counter_lock is free), the read, the write,
\* or the exit of the with block
increment_safe(t) ==
    LET w == workers[t] IN
    \/ /\ w.pc = "loop"
       /\ workers' = [workers EXCEPT ![t].pc =
                         IF w.i < w.n THEN "acquire" ELSE "done"]
       /\ UNCHANGED <<shared_counter, counter_lock>>
    \/ /\ w.pc = "acquire"
       /\ counter_lock = 0
       /\ counter_lock' = t
       /\ workers' = [workers EXCEPT ![t].pc = "read"]
       /\ UNCHANGED shared_counter
    \/ /\ w.pc = "read"
       /\ workers' = [workers EXCEPT ![t].temp = shared_counter,
                                     ![t].pc = "write"]
       /\ UNCHANGED <<shared_counter, counter_lock>>
    \/ /\ w.pc = "write"
       /\ shared_counter' = w.temp + 1
       /\ workers' = [workers EXCEPT ![t].pc = "release"]
       /\ UNCHANGED counter_lock
    \/ /\ w.pc = "release"
       /\ counter_lock' = 0
       /\ workers' = [workers EXCEPT ![t].i = @ + 1, ![t].pc = "loop"]
       /\ UNCHANGED shared_counter

\* the threads of a counter demonstration as created: T threads, each to
\* make N iterations
Workers(T, N) ==
    [t \in 1..T |-> [pc |-> "loop", temp |-> 0, i |-> 0, n |-> N]]

UnsafeStep ==
    /\ running = "race_condition"
    /\ \E t \in DOMAIN workers : increment_unsafe(t)
    /\ UNCHANGED <<memvars, pagvars, pc, running, netvars, bnkvars, semvars, prdvars>>

SafeStep ==
    /\ running = "mutex_lock"
    /\ \E t \in DOMAIN workers : increment_safe(t)
    /\ UNCHANGED <<memvars, pagvars, pc, running, netvars, bnkvars, semvars, prdvars>>

\* demonstrate_race_condition or demonstrate_mutex_lock after the threads
\* are created, for T threads of N iterations each
InitCounter ==
    /\ Constructed
    /\ pc = Idle
    /\ NetIdle
    /\ running \in {"race_condition", "mutex_lock"}
    /\ shared_counter = 0
    /\ counter_lock = 0
    /\ \E T \in 1..MaxThreads, N \in 1..MaxIter : workers = Workers(T, N)
    /\ BankIdle
    /\ SemaphoreIdle
    /\ ProducerConsumerIdle

NextCounter == UnsafeStep \/ SafeStep

SpecCounter == InitCounter /\ [][NextCounter]_vars

\* --------------------------------------- threading_sync.py: BankAccount
BankAccount(balance) == [balance |-> balance, lock |-> 0]

\* customer_transactions: the calls of one customer of the demonstration
customer_transactions ==
    <<[op |-> "deposit", amount |-> DemoDeposit],
      [op |-> "withdraw", amount |-> DemoWithdraw]>>

\* the calls a customer thread may make next: those of
\* customer_transactions in the demonstration, any deposit or withdraw of a
\* positive amount in free use of the class
NextCalls(c) ==
    IF running = "bank_transactions"
    THEN {customer_transactions[customers[c].calls + 1]}
    ELSE [op : {"deposit", "withdraw"}, amount : 1..MaxAmount]

Customers(K) ==
    [c \in 1..K |-> [pc |-> "idle", op |-> "none", amount |-> 0,
                     current |-> 0, calls |-> 0]]

\* customer c calls deposit or withdraw
BeginCall(c) ==
    /\ customers[c].pc = "idle"
    /\ customers[c].calls < Len(customer_transactions)
    /\ \E call \in NextCalls(c) :
          customers' = [customers EXCEPT ![c].pc = "lock",
                                         ![c].op = call.op,
                                         ![c].amount = call.amount]
    /\ UNCHANGED <<account, ledger>>

\* slip: deposit does not take the lock
depositNoLock(c) ==
    LET k == customers[c] IN
    /\ k.op = "deposit"
    /\ \/ /\ k.pc = "lock"
          /\ customers' = [customers EXCEPT ![c].pc = "read"]
          /\ UNCHANGED <<account, ledger>>
       \/ /\ k.pc = "read"
          /\ customers' = [customers EXCEPT ![c].current = account.balance,
                                            ![c].pc = "write"]
          /\ UNCHANGED <<account, ledger>>
       \/ /\ k.pc = "write"
          /\ account' = [account EXCEPT !.balance = k.current + k.amount]
          /\ ledger' = ledger + k.amount
          /\ customers' = [customers EXCEPT ![c].pc = "unlock"]
       \/ /\ k.pc = "unlock"
          /\ customers' = [customers EXCEPT ![c].pc = "idle",
                                            ![c].op = "none",
                                            ![c].amount = 0,
                                            ![c].current = 0,
                                            ![c].calls = @ + 1]
          /\ UNCHANGED <<account, ledger>>

\* one step of BankAccount.deposit(amount, customer) for customer c: the
\* entry of the with block, the read of the balance, the write after the
\* delay, or the exit of the with block
deposit(c) ==
    LET k == customers[c] IN
    /\ k.op = "deposit"
    /\ \/ /\ k.pc = "lock"
          /\ account.lock = 0
          /\ account' = [account EXCEPT !.lock = c]
          /\ customers' = [customers EXCEPT ![c].pc = "read"]
          /\ UNCHANGED ledger
       \/ /\ k.pc = "read"
          /\ customers' = [customers EXCEPT ![c].current = account.balance,
                                            ![c].pc = "write"]
          /\ UNCHANGED <<account, ledger>>
       \/ /\ k.pc = "write"
          /\ account' = [account EXCEPT !.balance = k.current + k.amount]
          /\ ledger' = ledger + k.amount
          /\ customers' = [customers EXCEPT ![c].pc = "unlock"]
       \/ /\ k.pc = "unlock"
          /\ account' = [account EXCEPT !.lock = 0]
          /\ customers' = [customers EXCEPT ![c].pc = "idle",
                                            ![c].op = "none",
                                            ![c].amount = 0,
                                            ![c].current = 0,
                                            ![c].calls = @ + 1]
          /\ UNCHANGED ledger

\* one step of BankAccount.withdraw(amount, customer) for customer c: the
\* entry of the with block, the test of the balance, the read, the write
\* after the delay, or the exit of the with block
withdraw(c) ==
    LET k == customers[c] IN
    /\ k.op = "withdraw"
    /\ \/ /\ k.pc = "lock"
          /\ account.lock = 0
          /\ account' = [account EXCEPT !.lock = c]
          /\ customers' = [customers EXCEPT ![c].pc = "check"]
          /\ UNCHANGED ledger
       \/ /\ k.pc = "check"
          /\ customers' = [customers EXCEPT ![c].pc =
                              IF account.balance >= k.amount
                              THEN "read" ELSE "unlock"]
          /\ UNCHANGED <<account, ledger>>
       \/ /\ k.pc = "read"
          /\ customers' = [customers EXCEPT ![c].current = account.balance,
                                            ![c].pc = "write"]
          /\ UNCHANGED <<account, ledger>>
       \/ /\ k.pc = "write"
          /\ account' = [account EXCEPT !.balance = k.current - k.amount]
          /\ ledger' = ledger - k.amount
          /\ customers' = [customers EXCEPT ![c].pc = "unlock"]
       \/ /\ k.pc = "unlock"
          /\ account' = [account EXCEPT !.lock = 0]
          /\ customers' = [customers EXCEPT ![c].pc = "idle",
                                            ![c].op = "none",
                                            ![c].amount = 0,
                                            ![c].current = 0,
                                            ![c].calls = @ + 1]
          /\ UNCHANGED ledger

BankRuns == running \in {"bank_transactions", "bank_account"}

BeginCallStep ==
    /\ BankRuns
    /\ \E c \in DOMAIN customers : BeginCall(c)
    /\ UNCHANGED <<memvars, pagvars, pc, running, netvars, cntvars, semvars, prdvars>>

DepositStep ==
    /\ BankRuns
    /\ \E c \in DOMAIN customers : deposit(c)
    /\ UNCHANGED <<memvars, pagvars, pc, running, netvars, cntvars, semvars, prdvars>>

WithdrawStep ==
    /\ BankRuns
    /\ \E c \in DOMAIN customers : withdraw(c)
    /\ UNCHANGED <<memvars, pagvars, pc, running, netvars, cntvars, semvars, prdvars>>

\* demonstrate_bank_transactions after its threads are created, or up to
\* MaxCustomers threads making two calls each on an account that opens
\* with a balance in 0..MaxAmount
InitBank ==
    /\ Constructed
    /\ pc = Idle
    /\ NetIdle
    /\ CounterIdle
    /\ \/ /\ running = "bank_transactions"
          /\ account = BankAccount(DemoBalance)
          /\ customers = Customers(DemoCustomers)
       \/ /\ running = "bank_account"
          /\ \E b \in 0..MaxAmount : account = BankAccount(b)
          /\ \E K \in 1..MaxCustomers : customers = Customers(K)
    /\ ledger = account.balance
    /\ SemaphoreIdle
    /\ ProducerConsumerIdle

NextBank == BeginCallStep \/ DepositStep \/ WithdrawStep

SpecBank == InitBank /\ [][NextBank]_vars

\* ----------------------------------------- threading_sync.py: semaphore
SemIds == 0..(SemThreads - 1)

\* slip: the with statement enters without waiting for a permit
access_resourceNoWait(thread_id) ==
    \/ /\ sem_threads[thread_id] = "waiting"
       /\ semaphore' = semaphore - 1
       /\ sem_threads' = [sem_threads EXCEPT ![thread_id] = "holding"]
    \/ /\ sem_threads[thread_id] = "holding"
       /\ semaphore' = semaphore + 1
       /\ sem_threads' = [sem_threads EXCEPT ![thread_id] = "done"]

\* one step of access_resource(thread_id): the entry of the with block
\* (waits until the semaphore's value is positive and takes one permit) or,
\* after the sleep, its exit (gives the permit back)
access_resource(thread_id) ==
    \/ /\ sem_threads[thread_id] = "waiting"
       /\ semaphore > 0
       /\ semaphore' = semaphore - 1
       /\ sem_threads' = [sem_threads EXCEPT ![thread_id] = "holding"]
    \/ /\ sem_threads[thread_id] = "holding"
       /\ semaphore' = semaphore + 1
       /\ sem_threads' = [sem_threads EXCEPT ![thread_id] = "done"]

SemaphoreStep(thread_id) ==
    /\ running = "semaphore"
    /\ access_resource(thread_id)
    /\ UNCHANGED <<memvars, pagvars, pc, running, netvars, cntvars, bnkvars, prdvars>>

\* demonstrate_semaphore after its threads are created
InitSemaphore ==
    /\ Constructed
    /\ pc = Idle
    /\ NetIdle
    /\ CounterIdle
    /\ BankIdle
    /\ running = "semaphore"
    /\ semaphore = SemPermits
    /\ sem_threads = [i \in SemIds |-> "waiting"]
    /\ ProducerConsumerIdle

NextSemaphore == \E i \in SemIds : SemaphoreStep(i)

\* every started thread keeps being scheduled: a step of a thread that
\* stays possible is eventually taken
SpecSemaphore ==
    /\ InitSemaphore
    /\ [][NextSemaphore]_vars
    /\ \A i \in SemIds : WF_vars(SemaphoreStep(i))

\* ------------------------------- threading_sync.py: producer and consumer
\* Time is counted in ticks of half a second. A sleep or a timeout
\* lasts as many ticks as fall inside it: random.uniform(0.1, 0.5) spans
\* 0 or 1 tick, random.uniform(0.2, 0.8) spans 0 to 2, timeout=2 spans 4.
\* A thread that can run does so before the next tick.
ConsumerNames == {"C0", "C1"}
ProducerSleeps == 0..ProducerSleepTicks
ConsumerSleeps == 0..ConsumerSleepTicks

\* item = f"Item-{i}": one label per index, none of them None
Item(i) == i + 1

Queue(maxsize) == [maxsize |-> maxsize, queue |-> <<>>, unfinished_tasks |-> 0]

\* slip: the queue is built without maxsize, so put never waits
producerUnbounded ==
    \/ /\ p_thread.pc = "put"
       /\ buffer' = [buffer EXCEPT !.queue = Append(@, Item(p_thread.i)),
                                   !.unfinished_tasks = @ + 1]
       /\ \E d \in ProducerSleeps :
             p_thread' = [p_thread EXCEPT !.pc = "sleep", !.timer = d]
    \/ /\ p_thread.pc = "sleep"
       /\ p_thread.timer = 0
       /\ p_thread' = [p_thread EXCEPT !.i = @ + 1,
                          !.pc = IF p_thread.i + 1 < Items
                                 THEN "put" ELSE "done"]
       /\ UNCHANGED buffer

\* one step of producer(): buffer.put(item), which waits while the queue
\* is full, followed by the start of the sleep; or the end of the sleep
\* and the loop test
producer ==
    \/ /\ p_thread.pc = "put"
       /\ Len(buffer.queue) < buffer.maxsize
       /\ buffer' = [buffer EXCEPT !.queue = Append(@, Item(p_thread.i)),
                                   !.unfinished_tasks = @ + 1]
       /\ \E d \in ProducerSleeps :
             p_thread' = [p_thread EXCEPT !.pc = "sleep", !.timer = d]
    \/ /\ p_thread.pc = "sleep"
       /\ p_thread.timer = 0
       /\ p_thread' = [p_thread EXCEPT !.i = @ + 1,
                          !.pc = IF p_thread.i + 1 < Items
                                 THEN "put" ELSE "done"]
       /\ UNCHANGED buffer

\* one step of consumer(name): buffer.get(timeout=2) returning the head
\* of the queue, or raising Empty when the timeout has passed on an empty
\* queue (the loop ends); buffer.task_done() and the start of the sleep;
\* the end of the sleep and the next get
consumer(name) ==
    LET c == c_threads[name] IN
    \/ /\ c.pc = "get"
       /\ buffer.queue # <<>>
       /\ buffer' = [buffer EXCEPT !.queue = Tail(@)]
       /\ c_threads' = [c_threads EXCEPT ![name].pc = "task_done",
                                         ![name].item = Head(buffer.queue),
                                         ![name].timer = 0]
       /\ consumed' = Append(consumed,
                             [item |-> Head(buffer.queue), by |-> name])
    \/ /\ c.pc = "get"
       /\ buffer.queue = <<>>
       /\ c.timer = 0
       /\ c_threads' = [c_threads EXCEPT ![name].pc = "exited"]
       /\ UNCHANGED <<buffer, consumed>>
    \/ /\ c.pc = "task_done"
       /\ buffer' = [buffer EXCEPT !.unfinished_tasks = @ - 1]
       /\ \E d \in ConsumerSleeps :
             c_threads' = [c_threads EXCEPT ![name].pc = "sleep",
                                            ![name].timer = d]
       /\ UNCHANGED consumed
    \/ /\ c.pc = "sleep"
       /\ c.timer = 0
       /\ c_threads' = [c_threads EXCEPT ![name].pc = "get",
                                         ![name].timer = TimeoutTicks]
       /\ UNCHANGED <<buffer, consumed>>

\* the main thread: p_thread.join(), then buffer.join()
WaitForCompletion ==
    \/ /\ main = "p_thread.join"
       /\ p_thread.pc = "done"
       /\ main' = "buffer.join"
    \/ /\ main = "buffer.join"
       /\ buffer.unfinished_tasks = 0
       /\ main' = "returned"

\* some thread can run now
Runnable ==
    \/ p_thread.pc = "put" /\ Len(buffer.queue) < buffer.maxsize
    \/ p_thread.pc = "sleep" /\ p_thread.timer = 0
    \/ \E name \in ConsumerNames :
          LET c == c_threads[name] IN
          \/ c.pc = "get" /\ (buffer.queue # <<>> \/ c.timer = 0)
          \/ c.pc = "task_done"
          \/ c.pc = "sleep" /\ c.timer = 0
    \/ main = "p_thread.join" /\ p_thread.pc = "done"
    \/ main = "buffer.join" /\ buffer.unfinished_tasks = 0

\* the clock passes a tick: every running sleep and timeout has one tick
\* less to go
Tick ==
    /\ running = "producer_consumer"
    /\ ~Runnable
    /\ \/ p_thread.pc = "sleep"
       \/ \E name \in ConsumerNames : c_threads[name].pc \in {"get", "sleep"}
    /\ p_thread' = IF p_thread.pc = "sleep"
                   THEN [p_thread EXCEPT !.timer = @ - 1] ELSE p_thread
    /\ c_threads' = [name \in ConsumerNames |->
                        IF c_threads[name].pc \in {"get", "sleep"}
                        THEN [c_threads[name] EXCEPT !.timer = @ - 1]
                        ELSE c_threads[name]]
    /\ UNCHANGED <<buffer, consumed, main>>
    /\ UNCHANGED <<memvars, pagvars, pc, running, netvars, cntvars, bnkvars, semvars>>

ProducerStep ==
    /\ running = "producer_consumer"
    /\ producer
    /\ UNCHANGED <<c_threads, consumed, main>>
    /\ UNCHANGED <<memvars, pagvars, pc, running, netvars, cntvars, bnkvars, semvars>>

ConsumerStep(name) ==
    /\ running = "producer_consumer"
    /\ consumer(name)
    /\ UNCHANGED <<p_thread, main>>
    /\ UNCHANGED <<memvars, pagvars, pc, running, netvars, cntvars, bnkvars, semvars>>

MainStep ==
    /\ running = "producer_consumer"
    /\ WaitForCompletion
    /\ UNCHANGED <<buffer, p_thread, c_threads, consumed>>
    /\ UNCHANGED <<memvars, pagvars, pc, running, netvars, cntvars, bnkvars, semvars>>

\* demonstrate_producer_consumer after its threads are started
InitProducerConsumer ==
    /\ Constructed
    /\ pc = Idle
    /\ NetIdle
    /\ CounterIdle
    /\ BankIdle
    /\ SemaphoreIdle
    /\ running = "producer_consumer"
    /\ buffer = Queue(BufferSize)
    /\ p_thread = [pc |-> "put", i |-> 0, timer |-> 0]
    /\ c_threads = [name \in ConsumerNames |->
                       [pc |-> "get", item |-> None, timer |-> TimeoutTicks]]
    /\ consumed = <<>>
    /\ main = "p_thread.join"

NextProducerConsumer ==
    \/ ProducerStep
    \/ \E name \in ConsumerNames : ConsumerStep(name)
    \/ MainStep
    \/ Tick

\* every started thread keeps being scheduled and the clock keeps running
SpecProducerConsumer ==
    /\ InitProducerConsumer
    /\ [][NextProducerConsumer]_vars
    /\ WF_vars(ProducerStep)
    /\ \A name \in ConsumerNames : WF_vars(ConsumerStep(name))
    /\ WF_vars(MainStep)
    /\ WF_vars(Tick)

\* ------------------------------------------------ task 2: tcp_server.py
\* A handler thread is the stack of its calls: handle_client at the
\* bottom, then the broadcast and remove_client calls in progress.
ConnIds == DOMAIN handlers

Elems(s) == {s[k] : k \in 1..Len(s)}

\* list.index(x): the 0-based position of the first x, or "ValueError"
ListIndex(s, x) ==
    IF x \in Elems(s)
    THEN (CHOOSE k \in 1..Len(s) :
              s[k] = x /\ \A j \in 1..(k - 1) : s[j] # x) - 1
    ELSE "ValueError"

\* list.remove(x): the list without its first x
ListRemove(s, x) ==
    LET k == ListIndex(s, x) + 1 IN
    [j \in 1..(Len(s) - 1) |-> IF j < k THEN s[j] ELSE s[j + 1]]

HandleClientFrame(conn) ==
    [fn |-> "handle_client", conn |-> conn, pc |-> "nick",
     nickname |-> "unset"]

\* broadcast(message, sender_conn): i is the position of the list
\* iterator; start, sent and failed record the clients list at the call,
\* the connections the message was sent to and those whose send raised
BroadcastFrame(message, sender_conn) ==
    [fn |-> "broadcast", message |-> message, sender_conn |-> sender_conn,
     i |-> 0, sent |-> {}, failed |-> {},
     start |-> IF message.kind = "chat" THEN Elems(clients) ELSE {}]

RemoveClientFrame(conn) ==
    [fn |-> "remove_client", conn |-> conn, pc |-> "test",
     index |-> 0, nickname |-> "unset"]

Top(stack) == stack[Len(stack)]
Push(stack, frame) == Append(stack, frame)
SetTop(stack, frame) == [stack EXCEPT ![Len(stack)] = frame]
Return(stack) == SubSeq(stack, 1, Len(stack) - 1)

\* an exception leaves every call in progress; handle_client catches it
\* when it comes from inside the try of its loop (lines 32-40) and runs
\* the except clause, otherwise the thread ends with it
Raise(stack) ==
    <<[stack[1] EXCEPT !.pc = IF @ \in {"in_relay", "in_leave"}
                               THEN "except" ELSE "died"]>>

\* what conn.send does: it raises on a socket the server has closed, it
\* may or may not raise once the peer has closed, it succeeds otherwise
SendOutcomes(conn) ==
    IF sockets[conn].closed THEN {FALSE}
    ELSE IF sockets[conn].peer = "closed" THEN {TRUE, FALSE}
    ELSE {TRUE}

\* what the relay of a chat message did, noted when broadcast returns
Relay(f) ==
    [sender |-> f.sender_conn,
     missed |-> ((f.start \cap Elems(clients)) \ {f.sender_conn}) \ f.sent,
     echoed |-> f.sender_conn \in f.sent,
     kept |-> f.failed \cap Elems(clients)]

\* the record of a relay: connection client goes to the sent or the failed
\* set of the frame of a chat message
Note(f, field, client) ==
    IF f.message.kind # "chat" THEN f
    ELSE IF field = "sent" THEN [f EXCEPT !.sent = @ \cup {client}]
    ELSE [f EXCEPT !.failed = @ \cup {client}]

\* The threads of up to MaxRacing connections interleave statement by
\* statement. With more connections a thread runs on until it waits in
\* recv or ends, and only then another thread or a client acts.
AtRest(c) ==
    /\ Len(handlers[c]) = 1
    /\ handlers[c][1].pc \in {"nick", "recv", "closed", "died"}
MayRun(c) ==
    \/ Len(handlers) <= MaxRacing
    \/ \A d \in DOMAIN handlers \ {c} : AtRest(d)
Settled ==
    \/ Len(handlers) <= MaxRacing
    \/ \A d \in DOMAIN handlers : AtRest(d)

\* one step of handle_client(conn, addr) in the thread of connection c
handle_client(c) ==
    LET stack == handlers[c]
        f == Top(stack)
        goto(p) == handlers' = [handlers EXCEPT
                                   ![c] = SetTop(stack, [f EXCEPT !.pc = p])]
        call(p, frame) ==
            handlers' = [handlers EXCEPT
                ![c] = Push(SetTop(stack, [f EXCEPT !.pc = p]), frame)]
    IN
    /\ f.fn = "handle_client"
    /\ \/ /\ f.pc = "nick"
          /\ sockets[c].peer = "open"
          /\ handlers' = [handlers EXCEPT ![c] = SetTop(stack,
                [f EXCEPT !.pc = "append_nickname",
                          !.nickname = sockets[c].nickname])]
          /\ UNCHANGED <<clients, nicknames, sockets, relayed>>
       \/ /\ f.pc = "append_nickname"
          /\ nicknames' = Append(nicknames, f.nickname)
          /\ goto("append_client")
          /\ UNCHANGED <<clients, sockets, relayed>>
       \/ /\ f.pc = "append_client"
          /\ clients' = Append(clients, c)
          /\ goto("announce")
          /\ UNCHANGED <<nicknames, sockets, relayed>>
       \/ /\ f.pc = "announce"
          /\ call("in_announce",
                  BroadcastFrame([kind |-> "joined", nickname |-> f.nickname],
                                 None))
          /\ UNCHANGED <<clients, nicknames, sockets, relayed>>
       \/ /\ f.pc = "in_announce"
          /\ \E ok \in SendOutcomes(c) :
                goto(IF ok THEN "recv" ELSE "died")
          /\ UNCHANGED <<clients, nicknames, sockets, relayed>>
       \/ /\ f.pc = "recv"
          /\ sockets[c].peer = "open"
          /\ sockets[c].unsent > 0
          /\ sockets' = [sockets EXCEPT ![c].unsent = @ - 1]
          /\ call("in_relay",
                  BroadcastFrame([kind |-> "chat", nickname |-> f.nickname,
                                  from |-> c], c))
          /\ UNCHANGED <<clients, nicknames, relayed>>
       \/ /\ f.pc = "recv"
          /\ sockets[c].peer = "closed"
          /\ call("in_leave", RemoveClientFrame(c))
          /\ UNCHANGED <<clients, nicknames, sockets, relayed>>
       \/ /\ f.pc = "in_relay"
          /\ goto("recv")
          /\ UNCHANGED <<clients, nicknames, sockets, relayed>>
       \/ /\ f.pc = "except"
          /\ call("in_except", RemoveClientFrame(c))
          /\ UNCHANGED <<clients, nicknames, sockets, relayed>>
       \/ /\ f.pc \in {"in_leave", "in_except"}
          /\ sockets' = [sockets EXCEPT ![c].closed = TRUE]
          /\ goto("closed")
          /\ UNCHANGED <<clients, nicknames, relayed>>

\* one step of broadcast in the thread of connection c: the iterator
\* yields the next element of clients and the message is sent to it unless
\* it is the sender, or the iterator is exhausted and the call returns
broadcast(c) ==
    LET stack == handlers[c]
        f == Top(stack)
    IN
    /\ f.fn = "broadcast"
    /\ IF f.i < Len(clients)
       THEN LET client == clients[f.i + 1]
                g == [f EXCEPT !.i = @ + 1]
            IN
            /\ IF client = f.sender_conn
               THEN handlers' = [handlers EXCEPT ![c] = SetTop(stack, g)]
               ELSE \E ok \in SendOutcomes(client) :
                       handlers' = [handlers EXCEPT ![c] =
                          IF ok
                          THEN SetTop(stack, Note(g, "sent", client))
                          ELSE Push(SetTop(stack, Note(g, "failed", client)),
                                    RemoveClientFrame(client))]
            /\ UNCHANGED relayed
       ELSE /\ handlers' = [handlers EXCEPT ![c] = Return(stack)]
            /\ relayed' = IF f.message.kind = "chat" THEN Relay(f)
                          ELSE relayed
    /\ UNCHANGED <<clients, nicknames, sockets>>

\* one step of remove_client(conn) in the thread of connection c
remove_client(c) ==
    LET stack == handlers[c]
        f == Top(stack)
        goto(g) == handlers' = [handlers EXCEPT ![c] = SetTop(stack, g)]
        raise == handlers' = [handlers EXCEPT ![c] = Raise(stack)]
    IN
    /\ f.fn = "remove_client"
    /\ \/ /\ f.pc = "test"
          /\ IF f.conn \in Elems(clients)
             THEN goto([f EXCEPT !.pc = "index"])
             ELSE handlers' = [handlers EXCEPT ![c] = Return(stack)]
          /\ UNCHANGED <<clients, nicknames>>
       \/ /\ f.pc = "index"
          /\ IF f.conn \in Elems(clients)
             THEN goto([f EXCEPT !.pc = "remove",
                                 !.index = ListIndex(clients, f.conn)])
             ELSE raise
          /\ UNCHANGED <<clients, nicknames>>
       \/ /\ f.pc = "remove"
          /\ IF f.conn \in Elems(clients)
             THEN /\ clients' = ListRemove(clients, f.conn)
                  /\ goto([f EXCEPT !.pc = "lookup"])
             ELSE /\ raise
                  /\ UNCHANGED clients
          /\ UNCHANGED nicknames
       \/ /\ f.pc = "lookup"
          /\ IF f.index < Len(nicknames)
             THEN goto([f EXCEPT !.pc = "nickremove",
                                 !.nickname = nicknames[f.index + 1]])
             ELSE raise
          /\ UNCHANGED <<clients, nicknames>>
       \/ /\ f.pc = "nickremove"
          /\ IF f.nickname \in Elems(nicknames)
             THEN /\ nicknames' = ListRemove(nicknames, f.nickname)
                  /\ goto([f EXCEPT !.pc = "announce"])
             ELSE /\ raise
                  /\ UNCHANGED nicknames
          /\ UNCHANGED clients
       \/ /\ f.pc = "announce"
          /\ handlers' = [handlers EXCEPT ![c] =
                Push(SetTop(stack, [f EXCEPT !.pc = "return"]),
                     BroadcastFrame([kind |-> "left",
                                     nickname |-> f.nickname], None))]
          /\ UNCHANGED <<clients, nicknames>>
       \/ /\ f.pc = "return"
          /\ handlers' = [handlers EXCEPT ![c] = Return(stack)]
          /\ UNCHANGED <<clients, nicknames>>
    /\ UNCHANGED <<sockets, relayed>>

\* the client of connection c closes its socket (/quit, or it goes away)
ClientClose(c) ==
    /\ sockets[c].peer = "open"
    /\ handlers[c][1].pc # "nick"
    /\ sockets' = [sockets EXCEPT ![c].peer = "closed"]
    /\ UNCHANGED <<clients, nicknames, handlers, relayed>>

ChatRuns == running = "tcp_server"

HandleClientStep ==
    /\ ChatRuns
    /\ \E c \in ConnIds : MayRun(c) /\ handle_client(c)
    /\ UNCHANGED <<memvars, pagvars, pc, running, tskvars, cntvars, bnkvars, semvars, prdvars>>

BroadcastStep ==
    /\ ChatRuns
    /\ \E c \in ConnIds : MayRun(c) /\ broadcast(c)
    /\ UNCHANGED <<memvars, pagvars, pc, running, tskvars, cntvars, bnkvars, semvars, prdvars>>

RemoveClientStep ==
    /\ ChatRuns
    /\ \E c \in ConnIds : MayRun(c) /\ remove_client(c)
    /\ UNCHANGED <<memvars, pagvars, pc, running, tskvars, cntvars, bnkvars, semvars, prdvars>>

ClientCloseStep ==
    /\ ChatRuns
    /\ Settled
    /\ \E c \in ConnIds : ClientClose(c)
    /\ UNCHANGED <<memvars, pagvars, pc, running, tskvars, cntvars, bnkvars, semvars, prdvars>>

\* start_server after it has accepted MaxRacing or MaxConns connections
\* and started their threads; each client picks its nickname and may type
\* up to MaxMsgs messages
InitChat ==
    /\ Constructed
    /\ pc = Idle
    /\ CounterIdle
    /\ BankIdle
    /\ SemaphoreIdle
    /\ ProducerConsumerIdle
    /\ TasksIdle
    /\ running = "tcp_server"
    /\ clients = <<>>
    /\ nicknames = <<>>
    /\ \E n \in {MaxRacing, MaxConns} :
          /\ handlers = [c \in 1..n |-> <<HandleClientFrame(c)>>]
          /\ sockets \in [1..n -> [nickname : ChatNicknames,
                                    peer : {"open"}, closed : {FALSE},
                                    unsent : 0..MaxMsgs]]
    /\ relayed = Nothing

NextChat ==
    HandleClientStep \/ BroadcastStep \/ RemoveClientStep \/ ClientCloseStep

SpecChat == InitChat /\ [][NextChat]_vars

\* ------------------------------------------------------------ rest_server
\* the task ids a DELETE /tasks/<task_id> request may name
TaskIds == 1..MaxRequests

\* find_task's None
NoTask == [id |-> None, created_by |-> None]

\* a request Flask has handed to a thread of its own: POST /tasks with or
\* without a title in its body, or DELETE /tasks/<task_id>
Request(op, has_title, task_id) ==
    [op |-> op, has_title |-> has_title, task_id |-> task_id,
     pc |-> "start", id |-> None, counter |-> None, task |-> NoTask,
     status |-> None]

\* find_task(task_id): the first task of the list with that id, or None
find_task(task_id) ==
    LET hits == {i \in 1..Len(tasks) : tasks[i].id = task_id}
    IN  IF hits = {} THEN NoTask
        ELSE tasks[CHOOSE i \in hits : \A j \in hits : i <= j]

\* the response ends the request
Respond(q, status) ==
    [q EXCEPT !.pc = "done", !.status = status, !.counter = None,
              !.task = NoTask]

\* one step of create_task() in the thread of request r
create_task(r) ==
    LET q == requests[r]
    IN  /\ q.op = "create"
        /\ \/ /\ q.pc = "start"
              /\ requests' = [requests EXCEPT ![r] =
                                 IF q.has_title
                                 THEN [q EXCEPT !.pc = "new_task"]
                                 ELSE Respond(q, 400)]
              /\ UNCHANGED <<tasks, task_id_counter, assigned>>
           \/ /\ q.pc = "new_task"
              /\ requests' = [requests EXCEPT ![r] =
                                 [q EXCEPT !.id = task_id_counter,
                                           !.pc = "append"]]
              /\ UNCHANGED <<tasks, task_id_counter, assigned>>
           \/ /\ q.pc = "append"
              /\ tasks' = Append(tasks, [id |-> q.id, created_by |-> r])
              /\ assigned' = Append(assigned, q.id)
              /\ requests' = [requests EXCEPT ![r] = [q EXCEPT !.pc = "load"]]
              /\ UNCHANGED task_id_counter
           \/ /\ q.pc = "load"
              /\ requests' = [requests EXCEPT ![r] =
                                 [q EXCEPT !.counter = task_id_counter,
                                           !.pc = "store"]]
              /\ UNCHANGED <<tasks, task_id_counter, assigned>>
           \/ /\ q.pc = "store"
              /\ task_id_counter' = q.counter + 1
              /\ requests' = [requests EXCEPT ![r] = Respond(q, 201)]
              /\ UNCHANGED <<tasks, assigned>>

\* one step of delete_task(task_id) in the thread of request r
delete_task(r) ==
    LET q == requests[r]
    IN  /\ q.op = "delete"
        /\ \/ /\ q.pc = "start"
              /\ LET task == find_task(q.task_id)
                 IN  requests' = [requests EXCEPT ![r] =
                                     IF task = NoTask
                                     THEN Respond(q, 404)
                                     ELSE [q EXCEPT !.task = task,
                                                    !.pc = "remove"]]
              /\ UNCHANGED tasks
           \/ /\ q.pc = "remove"
              /\ IF q.task \notin Elems(tasks)
                 THEN /\ requests' = [requests EXCEPT ![r] = Respond(q, 500)]
                      /\ UNCHANGED tasks
                 ELSE /\ tasks' = ListRemove(tasks, q.task)
                      /\ requests' = [requests EXCEPT ![r] = Respond(q, 200)]
        /\ UNCHANGED <<task_id_counter, assigned>>

\* app.run: the server takes one more request and serves it in a new
\* thread
Dispatch(q) ==
    /\ Len(requests) < MaxRequests
    /\ requests' = Append(requests, q)
    /\ UNCHANGED <<tasks, task_id_counter, assigned>>

TasksRun == running = "rest_server"

DispatchStep ==
    /\ TasksRun
    /\ \/ \E has_title \in BOOLEAN : Dispatch(Request("create", has_title, None))
       \/ \E task_id \in TaskIds : Dispatch(Request("delete", FALSE, task_id))
    /\ UNCHANGED <<memvars, pagvars, pc, running, chtvars, cntvars, bnkvars, semvars, prdvars>>

CreateTaskStep ==
    /\ TasksRun
    /\ \E r \in DOMAIN requests : create_task(r)
    /\ UNCHANGED <<memvars, pagvars, pc, running, chtvars, cntvars, bnkvars, semvars, prdvars>>

DeleteTaskStep ==
    /\ TasksRun
    /\ \E r \in DOMAIN requests : delete_task(r)
    /\ UNCHANGED <<memvars, pagvars, pc, running, chtvars, cntvars, bnkvars, semvars, prdvars>>

\* rest_server as loaded, before its first request
InitTasks ==
    /\ Constructed
    /\ pc = Idle
    /\ CounterIdle
    /\ BankIdle
    /\ SemaphoreIdle
    /\ ProducerConsumerIdle
    /\ ChatIdle
    /\ running = "rest_server"
    /\ tasks = <<>>
    /\ task_id_counter = 1
    /\ requests = <<>>
    /\ assigned = <<>>

NextTasks == DispatchStep \/ CreateTaskStep \/ DeleteTaskStep

SpecTasks == InitTasks /\ [][NextTasks]_vars

\* ------------------------------------- deallocate, statement by statement
\* slip: the index entry is deleted where the block is marked free
DeallocateMarkDeletes(process_id) ==
    LET i == OwnerScan(blocks, process_id, 1) IN
    /\ process_id \in DOMAIN allocated_processes
    /\ i # 0
    /\ blocks' = [blocks EXCEPT ![i].is_free = TRUE, ![i].process_id = None]
    /\ allocated_processes' = DictDel(allocated_processes, process_id)
    /\ pc' = [at |-> "coalesce", pid |-> process_id, i |-> i]
    /\ UNCHANGED <<total_size, last>>

\* deallocate up to the call of _coalesce: the index check passes, the
\* scan finds the block at i and marks it free
DeallocateMark(process_id) ==
    LET i == OwnerScan(blocks, process_id, 1) IN
    /\ process_id \in DOMAIN allocated_processes
    /\ i # 0
    /\ blocks' = [blocks EXCEPT ![i].is_free = TRUE, ![i].process_id = None]
    /\ pc' = [at |-> "coalesce", pid |-> process_id, i |-> i]
    /\ UNCHANGED <<total_size, allocated_processes, last>>

\* self._coalesce(i)
DeallocateCoalesce ==
    LET co == _coalesce(blocks, pc.i) IN
    /\ pc.at = "coalesce"
    /\ blocks' = co.blocks
    /\ pc' = [at |-> "del", pid |-> pc.pid, i |-> pc.i,
              merges |-> co.merges]
    /\ UNCHANGED <<total_size, allocated_processes, last>>

\* del self.allocated_processes[process_id]; return True
DeallocateDel ==
    /\ pc.at = "del"
    /\ IF pc.pid \in DOMAIN allocated_processes
       THEN /\ allocated_processes' = DictDel(allocated_processes, pc.pid)
            /\ last' = Call("deallocate", pc.pid, 0, TRUE, pc.merges)
       ELSE /\ UNCHANGED allocated_processes
            /\ last' = Call("deallocate", pc.pid, 0, "KeyError", pc.merges)
    /\ pc' = Idle
    /\ UNCHANGED <<total_size, blocks>>

\* a deallocate call that returns False: its outcome is the whole call
DeallocateFails ==
    /\ pc = Idle
    /\ PagingIdle
    /\ \E p \in PIDs(total_size) :
        /\ ~(p \in DOMAIN allocated_processes /\ OwnerScan(blocks, p, 1) # 0)
        /\ deallocate(p)
        /\ Replay("deallocate", p, 0)
        /\ Freeing(p)
        /\ shown' = Nothing
        /\ UNCHANGED <<invalid, pagvars, othvars>>

DeallocateEnter ==
    /\ pc = Idle
    /\ PagingIdle
    /\ \E p \in PIDs(total_size) :
        /\ DeallocateMark(p)
        /\ Replay("deallocate", p, 0)
        /\ Freeing(p)
        /\ shown' = Nothing
        /\ UNCHANGED <<invalid, pagvars, thrvars>>

DeallocateCoalesceStep ==
    /\ DeallocateCoalesce
    /\ UNCHANGED <<invalid, demo, released, shown, pagvars, thrvars>>

DeallocateReturn ==
    /\ DeallocateDel
    /\ UNCHANGED <<invalid, demo, released, shown, pagvars, thrvars>>

AllocateStep == pc = Idle /\ (FirstFitCall \/ BestFitCall)

NextSteps ==
    \/ AllocateStep
    \/ DeallocateFails
    \/ DeallocateEnter
    \/ DeallocateCoalesceStep
    \/ DeallocateReturn

\* MemoryManager(total_size=512) under the requests of the demonstrations,
\* with each successful deallocate taken one statement at a time
SpecSteps == InitQuery /\ [][NextSteps]_vars

\* ------------------------------------------------------- derived quantities
RECURSIVE SumSizes(_)
SumSizes(bs) == IF bs = <<>> THEN 0 ELSE Head(bs).size + SumSizes(Tail(bs))

IsFree(b) == b.is_free
IsOwned(b) == ~b.is_free

\* bytes in free blocks (free_memory of display_memory) and in owned blocks
FreeBytes == SumSizes(SelectSeq(blocks, IsFree))
OwnedBytes == SumSizes(SelectSeq(blocks, IsOwned))

AllocOps == {"first_fit", "best_fit"}

\* ---------------------------------------------------------------------- C1
\* C1: under well-formed calls (positive sizes, fresh process ids) the block
\* list tiles [0, total_size): sorted by start, first block at 0, each block
\* ends where the next begins, every size positive, sizes sum to total_size,
\* and used bytes + free bytes = total_size.
C1_Tiling ==
    /\ Len(blocks) >= 1
    /\ blocks[1].start = 0
    /\ \A i \in 1..(Len(blocks) - 1) :
           /\ blocks[i].start + blocks[i].size = blocks[i + 1].start
           /\ blocks[i].start < blocks[i + 1].start
    /\ \A i \in 1..Len(blocks) : blocks[i].size > 0
    /\ blocks[Len(blocks)].start + blocks[Len(blocks)].size = total_size
    /\ SumSizes(blocks) = total_size
    /\ OwnedBytes + FreeBytes = total_size

\* a deallocation has left a free gap in front of an owned block
C1_Witness ==
    /\ last.op = "deallocate" /\ last.ok
    /\ Len(blocks) >= 4
    /\ \E i \in 1..(Len(blocks) - 1) :
           blocks[i].is_free /\ ~blocks[i + 1].is_free

\* ---------------------------------------------------------------------- C2
\* C2: after every completed allocate or deallocate call, successful or
\* failed, no two consecutive blocks are both free.
C2_NoAdjacentFree ==
    \A i \in 1..(Len(blocks) - 1) :
        ~(blocks[i].is_free /\ blocks[i + 1].is_free)

\* a deallocation whose block had a free neighbour on both sides
C2_Witness ==
    last.op = "deallocate" /\ last.ok /\ last.merges = 2

\* ---------------------------------------------------------------------- C3
\* C3: an allocate call with a non-positive size, or with a process id that
\* already owns a block, reports failure and leaves the block list and the
\* allocation index unchanged.
C3_IllFormedRejected ==
    [][ (last'.op \in AllocOps /\ ~WellFormed(last'.pid, last'.size))
        => (~last'.ok /\ UNCHANGED <<blocks, allocated_processes>>) ]_vars

\* ---------------------------------------------------------------------- C4
\* C4: in every reachable state no two blocks carry the same owner.
C4_UniqueOwners ==
    \A i, j \in 1..Len(blocks) :
        (i # j /\ ~blocks[i].is_free /\ ~blocks[j].is_free)
            => blocks[i].process_id # blocks[j].process_id

\* ---------------------------------------------------------------------- C5
\* positions of the free blocks that can take a request of the given size
Fits(bs, size) == {i \in 1..Len(bs) : bs[i].is_free /\ bs[i].size >= size}

\* C5: when no free block has size >= the request, allocate_first_fit and
\* allocate_best_fit report failure and leave the block list and the
\* allocation index as they were.
C5_InsufficientMemory ==
    [][ (last'.op \in AllocOps /\ Fits(blocks, last'.size) = {})
        => (~last'.ok /\ UNCHANGED <<blocks, allocated_processes>>) ]_vars

\* a request has failed although some block is free
C5_Witness ==
    /\ last.op \in AllocOps /\ ~last.ok
    /\ Fits(blocks, last.size) = {}
    /\ \E i \in 1..Len(blocks) : blocks[i].is_free

\* ---------------------------------------------------------------------- C6
\* C6: deallocate of a process id that holds no block reports failure and
\* leaves the block list and the allocation index as they were.
C6_ProcessNotFound ==
    [][ (/\ last'.op = "deallocate"
         /\ \A i \in 1..Len(blocks) : blocks[i].process_id # last'.pid)
        => (~last'.ok /\ UNCHANGED <<blocks, allocated_processes>>) ]_vars

\* an unknown process id was deallocated while other processes hold blocks
C6_Witness ==
    /\ last.op = "deallocate" /\ ~last.ok
    /\ last.pid \notin DOMAIN allocated_processes
    /\ DOMAIN allocated_processes # {}

\* ---------------------------------------------------------------------- C7
\* the call just made has placed process p, with size s, at address a
PlacedAtNext(p, s, a) ==
    /\ p \in DOMAIN allocated_processes'
    /\ allocated_processes'[p].start = a
    /\ \E k \in 1..Len(blocks') : blocks'[k] = MemoryBlock(a, s, p)

\* the fitting free block of lowest start address
LowestFit(bs, size) ==
    CHOOSE i \in Fits(bs, size) :
        \A k \in Fits(bs, size) : bs[i].start <= bs[k].start

SmallestFit(bs, size) ==
    CHOOSE i \in Fits(bs, size) :
        \A k \in Fits(bs, size) :
            \/ bs[i].size < bs[k].size
            \/ bs[i].size = bs[k].size /\ bs[i].start <= bs[k].start

RequestSizes == {r[2] : r \in Requests(total_size)}

C10_PlacementFrame ==
    [][ (last'.op \in AllocOps /\ last'.ok)
        => \E i \in Fits(blocks, last'.size) :
              LET a == blocks[i].start
                  n == blocks[i].size
                  s == last'.size
              IN  /\ \A k \in 1..(i - 1) : blocks'[k] = blocks[k]
                  /\ blocks'[i] = [start |-> a, size |-> s,
                                   process_id |-> last'.pid, is_free |-> FALSE]
                  /\ IF n = s
                     THEN /\ Len(blocks') = Len(blocks)
                          /\ \A k \in (i + 1)..Len(blocks) :
                                 blocks'[k] = blocks[k]
                     ELSE /\ Len(blocks') = Len(blocks) + 1
                          /\ blocks'[i + 1] = [start |-> a + s, size |-> n - s,
                                               process_id |-> None,
                                               is_free |-> TRUE]
                          /\ \A k \in (i + 1)..Len(blocks) :
                                 blocks'[k + 1] = blocks[k] ]_vars

\* best-fit has split a gap that lies between two owned blocks
C10_Witness ==
    /\ last.op = "best_fit" /\ last.ok
    /\ \E i \in 2..(Len(blocks) - 2) :
           /\ blocks[i].process_id = last.pid
           /\ blocks[i + 1].is_free
           /\ ~blocks[i - 1].is_free
           /\ ~blocks[i + 2].is_free

\* --------------------------------------------------------------------- C11
\* positions of the free blocks of bs that contain the extent [a, a + n)
FreeHolders(bs, a, n) ==
    {k \in 1..Len(bs) :
        /\ bs[k].is_free
        /\ bs[k].start <= a
        /\ a + n <= bs[k].start + bs[k].size}

\* two extents <<start, size>> that touch
Touching(x, y) == x[1] + x[2] = y[1] \/ y[1] + y[2] = x[1]

\* C11: after a successful deallocate(p) the extent p owned lies inside
\* exactly one free block, whose extent is the union of p's block and the
\* free blocks that were immediately adjacent to it before the call, and all
\* owned blocks are untouched; and when the call before it was a successful
\* deallocate of an address-adjacent block (on either side), exactly one
\* free block spans both extents.
C11_DeallocateMerges ==
    [][ (last'.op = "deallocate" /\ last'.ok)
        => LET i == OwnerScan(blocks, last'.pid, 1)
               a == blocks[i].start
               n == blocks[i].size
               lo == IF i > 1 /\ blocks[i - 1].is_free
                     THEN blocks[i - 1].start ELSE a
               hi == IF i < Len(blocks) /\ blocks[i + 1].is_free
                     THEN blocks[i + 1].start + blocks[i + 1].size ELSE a + n
               holders == FreeHolders(blocks', a, n)
           IN  /\ Cardinality(holders) = 1
               /\ \A k \in holders :
                      /\ blocks'[k].start = lo
                      /\ blocks'[k].start + blocks'[k].size = hi
               /\ SelectSeq(blocks', IsOwned)
                      = SelectSeq([blocks EXCEPT ![i].is_free = TRUE], IsOwned)
               /\ (released # <<>> /\ Touching(released, <<a, n>>))
                      => holders = FreeHolders(blocks', released[1],
                                               released[2]) ]_vars

\* a block was freed whose two neighbours were free, and one free block now
\* covers all three extents
C11_Witness ==
    /\ last.op = "deallocate" /\ last.ok /\ last.merges = 2
    /\ \E k \in 1..Len(blocks) :
           /\ blocks[k].is_free
           /\ blocks[k].start < released[1]
           /\ released[1] + released[2] < blocks[k].start + blocks[k].size

\* --------------------------------------------------------------------- C12
\* process ids that own a block of the block list
Owners == {blocks[i].process_id : i \in {k \in 1..Len(blocks) : ~blocks[k].is_free}}

\* C12: after every completed allocate or deallocate the key set of the
\* allocation index equals the set of owners appearing in the block list,
\* and the entry of each process is the block of the list that the process
\* owns (same start and size).
C12_IndexLockstep ==
    /\ DOMAIN allocated_processes = Owners
    /\ \A p \in DOMAIN allocated_processes :
           \A i \in 1..Len(blocks) :
               blocks[i].process_id = p
                   => /\ allocated_processes[p].start = blocks[i].start
                      /\ allocated_processes[p].size = blocks[i].size

\* --------------------------------------------------------------------- C13
\* the classification and the evictions the golden sequence must show
GoldenHit ==
    <<FALSE, FALSE, FALSE, FALSE, FALSE, FALSE, FALSE, TRUE, TRUE, FALSE,
      FALSE, TRUE>>
GoldenEvicted == <<None, None, None, 1, 2, 3, 4, None, None, 1, 2, None>>

IsPrefix(s, q) == Len(s) <= Len(q) /\ SubSeq(q, 1, Len(s)) = s

\* C13: FIFO with 3 frames on [1,2,3,4,1,2,5,1,2,3,4,5] faults on accesses
\* 1-7, 10 and 11 and hits on accesses 8, 9 and 12 (9 faults, 3 hits),
\* evicts pages 1,2,3,4,1,2 in that order and ends with pages {5,3,4}.
C13_GoldenFifo ==
    (pt.num_frames = 3 /\ pages # <<>> /\ IsPrefix(pages, DemoPages))
        => /\ out.page = DemoPages[Len(pages)]
           /\ out.hit = GoldenHit[Len(pages)]
           /\ out.replaced = GoldenEvicted[Len(pages)]
           /\ pages = DemoPages
                 => /\ pt.page_faults = 9
                    /\ pt.page_hits = 3
                    /\ {pt.frames[i] : i \in 1..3} = {5, 3, 4}

\* the golden sequence has been accessed to its end on a 3-frame table
C13_Witness ==
    /\ pt.num_frames = 3
    /\ pages = DemoPages
    /\ out.hit /\ out.page = 5

\* --------------------------------------------------------------------- C14
\* C14: with 3 frames on [1,2,3,1,4], loading page 4 makes LRU evict page 2
\* and FIFO evict page 1, and the two policies end with different resident
\* sets.
C14_PoliciesDiffer ==
    (pt.num_frames = 3 /\ pages = ComparePages /\ lru.pc = "done")
        => /\ out.page = 4 /\ out.replaced = 1
           /\ lru.replaced = 2
           /\ {pt.frames[i] : i \in 1..3} = {2, 3, 4}
           /\ {lru.frames[i] : i \in 1..3} = {3, 1, 4}
           /\ {pt.frames[i] : i \in 1..3} # {lru.frames[i] : i \in 1..3}

\* both policies have run over the whole comparison sequence on 3 frames
C14_Witness ==
    /\ pt.num_frames = 3 /\ pt_lru.num_frames = 3
    /\ pages = ComparePages
    /\ lru.pc = "done" /\ lru.k = 5

\* --------------------------------------------------------------------- C15
\* the pages of the list s
Resident(s) == {s[i] : i \in 1..Len(s)} \ {None}

\* C15: under FIFO an access to a resident page is a hit that changes
\* neither the contents nor the order of the frames, and a fault with all
\* frames occupied evicts exactly the resident page that was loaded
\* earliest, whenever it was last referenced.
C15_FifoPolicy ==
    [][ (pages' # pages)
        => LET page == out'.page IN
           /\ page = pages'[Len(pages')]
           /\ DOMAIN arrival = Resident(pt.frames)
           /\ In(page, pt.frames)
                 => /\ out'.hit
                    /\ pt'.frames = pt.frames
           /\ (~In(page, pt.frames) /\ ~In(None, pt.frames))
                 => /\ ~out'.hit
                    /\ out'.replaced \in Resident(pt.frames)
                    /\ \A q \in Resident(pt.frames) :
                           q # out'.replaced
                              => arrival[out'.replaced] < arrival[q]
                    /\ Resident(pt'.frames)
                           = (Resident(pt.frames) \ {out'.replaced})
                                 \cup {page} ]_vars

\* a full table evicted the page that had been referenced by the access just
\* before, because it was the page loaded earliest
C15_Witness ==
    /\ out.printed /\ out.replaced # None
    /\ Len(pages) >= 2
    /\ pages[Len(pages) - 1] = out.replaced
    /\ pt.num_frames >= 2

\* --------------------------------------------------------------------- C16
\* position of the latest reference to page q among the first k accesses
LastRef(q, k) ==
    CHOOSE i \in 1..k :
        pages[i] = q /\ \A j \in (i + 1)..k : pages[j] # q

\* C16: under LRU a hit moves the page to the most-recently-used end
\* without changing the resident set, and a fault with all frames occupied
\* evicts exactly the resident page whose most recent reference is the
\* oldest and makes the new page the most recently used.
C16_LruPolicy ==
    [][ (lru.pc = "loop" /\ lru'.pc = "loop")
        => LET page == pages[lru.k + 1]
               n == Len(lru'.frames)
           IN
           /\ lru'.k = lru.k + 1
           /\ In(page, lru.frames)
                 => /\ lru'.hit
                    /\ Resident(lru'.frames) = Resident(lru.frames)
                    /\ n = Len(lru.frames)
                    /\ lru'.frames[n] = page
           /\ (~In(page, lru.frames)
                  /\ Len(lru.frames) = pt_lru.num_frames)
                 => /\ ~lru'.hit
                    /\ lru'.replaced \in Resident(lru.frames)
                    /\ \A q \in Resident(lru.frames) :
                           q # lru'.replaced
                              => LastRef(lru'.replaced, lru.k)
                                     < LastRef(q, lru.k)
                    /\ Resident(lru'.frames)
                           = (Resident(lru.frames) \ {lru'.replaced})
                                 \cup {page}
                    /\ lru'.frames[n] = page ]_vars

\* on the same access of the same sequence both policies replaced a page,
\* and LRU chose another victim than FIFO
C16_Witness ==
    /\ lru.pc = "loop" /\ lru.k = Len(pages)
    /\ lru.replaced # None
    /\ out.printed /\ out.replaced # None
    /\ out.replaced # lru.replaced

\* --------------------------------------------------------------------- C17
\* C17: after n page accesses under either policy the counters of the
\* table satisfy page_hits + page_faults = n, page_hits counting exactly
\* the accesses whose page was resident at access time: every access adds
\* one to page_hits when its page is resident and one to page_faults when
\* it is not, and a completed LRU run over n pages leaves the counters of
\* its table at a sum of n.
C17_CountersSum ==
    [][ /\ (pages' # pages)
           => /\ pt'.page_hits + pt'.page_faults = Len(pages')
              /\ pt'.page_hits - pt.page_hits
                    = IF In(out'.page, pt.frames) THEN 1 ELSE 0
        /\ (lru.pc = "loop" /\ lru'.pc = "loop")
           => pt_lru'.page_hits - pt_lru.page_hits
                 = IF In(pages[lru.k + 1], lru.frames) THEN 1 ELSE 0
        /\ (lru.pc = "loop" /\ lru'.pc # "loop")
           => pt_lru'.page_hits + pt_lru'.page_faults = Len(pages) ]_vars

\* the FIFO half of C17: the counters of pt add up to the number of
\* accesses made on it
FifoCountersSum == pt.page_hits + pt.page_faults = Len(pages)

\* --------------------------------------------------------------------- C18
\* C18: reporting the hit rate when no page access has happened yields 0
\* and never a division by zero, both for display_stats on a fresh table
\* and for an LRU run over an empty access sequence.
C18_HitRateGuarded ==
    /\ (stats.printed /\ pages = <<>>) => stats.hit_rate = 0
    /\ lru.pc # "ZeroDivisionError"
    /\ (lru.pc = "done" /\ pages = <<>>) => lru.hit_rate = 0

\* the half of C18 that the code keeps: display_stats on a fresh table
FreshStatsZero ==
    (stats.printed /\ pages = <<>>) => stats.hit_rate = 0

\* --------------------------------------------------------------------- C19
\* no page sits at two positions of the list s (empty slots apart)
NoPageTwice(s) ==
    \A i, j \in 1..Len(s) : (i # j /\ s[i] # None) => s[i] # s[j]

\* C19: in every reachable state the frame list of a FIFO table has
\* exactly num_frames slots, the resident list of an LRU run holds at most
\* num_frames pages, and no page is resident in two slots at once.
C19_FrameBounds ==
    /\ Len(pt.frames) = pt.num_frames
    /\ Len(pt_lru.frames) = pt_lru.num_frames
    /\ NoPageTwice(pt.frames)
    /\ lru.pc # "idle"
          => /\ Len(lru.frames) <= pt_lru.num_frames
             /\ NoPageTwice(lru.frames)

\* both policies have filled every frame and replaced a page of a full table
C19_Witness ==
    /\ out.printed /\ out.replaced # None
    /\ ~In(None, pt.frames)
    /\ lru.pc = "done"
    /\ Len(lru.frames) = pt_lru.num_frames
    /\ lru.replaced # None

\* --------------------------------------------------------------------- C20
\* C20: display_memory and display_stats are read-only: a display leaves
\* blocks, allocation index, frames and counters unchanged, and a display
\* that follows a display with no command in between prints the same.
C20_DisplaysReadOnly ==
    [][ /\ shown'.printed
           => /\ UNCHANGED <<total_size, blocks, allocated_processes>>
              /\ shown.printed => shown' = shown
        /\ stats'.printed
           => /\ UNCHANGED <<pt, pt_lru>>
              /\ stats.printed => stats' = stats ]_vars

\* the memory map of a manager with an owned block between two free blocks
\* has been printed
C20_Witness ==
    /\ shown.printed
    /\ Len(shown.rows) >= 3
    /\ shown.fragmentation >= 2
    /\ shown.used > 0

\* the statistics of a table with hits and faults have been printed
StatsWitness ==
    /\ stats.printed
    /\ stats.page_hits > 0 /\ stats.page_faults > 0

\* --------------------------------------------------------------------- C21
\* C21: from the successful allocate of process p until deallocate(p) the
\* start and the size of p's block never change: a step that is not a
\* successful deallocate(p) leaves every block owned by p in the list with
\* the owner, start and size it had.
C21_OwnedBlockFixed ==
    [][ \A i \in 1..Len(blocks) :
           (/\ ~blocks[i].is_free
            /\ ~(/\ last'.op = "deallocate" /\ last'.ok
                 /\ last'.pid = blocks[i].process_id))
              => \E j \in 1..Len(blocks') :
                    /\ blocks'[j].process_id = blocks[i].process_id
                    /\ blocks'[j].start = blocks[i].start
                    /\ blocks'[j].size = blocks[i].size ]_vars

\* a neighbour of an owned block was freed and merged on both sides while
\* another process kept its block
C21_Witness ==
    /\ last.op = "deallocate" /\ last.ok /\ last.merges = 2
    /\ Owners # {}
    /\ \E i \in 1..(Len(blocks) - 1) :
           blocks[i].is_free /\ ~blocks[i + 1].is_free

\* --------------------------------------------------------------------- C22
\* C22: in every reachable state and for every positive request size, the
\* scan of allocate_first_fit and the scan of allocate_best_fit find a block
\* exactly when some single free block has size >= the request, so the two
\* strategies agree on success (that a request can fail while the free
\* bytes add up to it is C22_Witness).
C22_SuccessIffFits ==
    \A s \in {r \in RequestSizes : r > 0} :
        /\ FirstFitScan(blocks, s, 1) # 0 <=> Fits(blocks, s) # {}
        /\ BestFitScan(blocks, s, 1, 0, 0) # 0 <=> Fits(blocks, s) # {}

\* external fragmentation: a request has just failed although the free
\* bytes add up to at least its size
C22_Witness ==
    /\ last.op \in AllocOps /\ ~last.ok
    /\ last.size > 0
    /\ FreeBytes >= last.size
    /\ Fits(blocks, last.size) = {}

\* --------------------------------------------------------------------- C24
\* C24: a single deallocate performs at most two merge steps in the
\* coalescing loop, and the loop ends: every merge step removes one block
\* from the list, so the passes that merge are at most two and the pass
\* after them finds nothing to merge.
C24_AtMostTwoMerges ==
    [][ (last'.op = "deallocate" /\ last'.ok)
        => /\ last'.merges <= 2
           /\ last'.merges = Len(blocks) - Len(blocks')
           /\ LET k == OwnerScan(blocks, last'.pid, 1)
                   co == _coalesce(blocks', k - (IF k > 1 /\ blocks[k - 1].is_free
                                                 THEN 1 ELSE 0))
               IN  co.merges = 0 /\ co.blocks = blocks' ]_vars

\* a deallocate has merged on both sides
C24_Witness ==
    /\ last.op = "deallocate" /\ last.ok /\ last.merges = 2
    /\ released # <<>>
    /\ \E k \in 1..Len(blocks) :
           /\ blocks[k].is_free
           /\ blocks[k].size > released[2]

\* --------------------------------------------------------------------- C23
\* the occupied slots of frame list s come first, in the order in which
\* their pages arrived according to arr, and the empty slots come last
ArrivalPrefix(s, arr) ==
    /\ \A i \in 1..(Len(s) - 1) : s[i] = None => s[i + 1] = None
    /\ \A i \in 1..(Len(s) - 1) :
           s[i + 1] # None => arr[s[i]] < arr[s[i + 1]]

\* C23: under FIFO a fault while some slot is empty loads the page into the
\* lowest-index empty slot and evicts nothing, and in every reachable state
\* the occupied slots form a prefix of the frame list ordered by arrival
\* (oldest at index 0) and the empty slots form a suffix.
C23_FifoPrefix ==
    [][ /\ ArrivalPrefix(pt.frames, arrival)
        /\ ArrivalPrefix(pt'.frames, arrival')
        /\ (pages' # pages /\ ~In(out'.page, pt.frames)
               /\ In(None, pt.frames))
              => LET idx == Index(pt.frames, None) IN
                 /\ \A j \in 1..(idx - 1) : pt.frames[j] # None
                 /\ pt'.frames = [pt.frames EXCEPT ![idx] = out'.page]
                 /\ ~out'.hit
                 /\ out'.replaced = None
                 /\ pt'.page_faults = pt.page_faults + 1 ]_vars

\* a table of three frames holds two pages and an empty last slot after a
\* fault that loaded the second page
C23_Witness ==
    /\ pt.num_frames = 3
    /\ out.printed /\ ~out.hit /\ out.replaced = None
    /\ pt.frames[1] # None /\ pt.frames[2] = out.page
    /\ pt.frames[3] = None

\* --------------------------------------------------------------------- C25
\* C25 as stated: during deallocate of a known process the steps happen in
\* the order mark the block free, remove the allocation-index entry, run
\* the coalescer; when coalescing starts the process id is no longer in
\* the index.
C25_IndexGoneBeforeCoalesce ==
    pc.at = "coalesce" => pc.pid \notin DOMAIN allocated_processes

\* C25 amended: during deallocate of a known process the steps happen in
\* the order mark the block free, run the coalescer, remove the
\* allocation-index entry; when coalescing starts the block is free and
\* the process id is still in the index, and the entry goes only after
\* the coalescer has run.
C25_CoalesceBeforeIndexRemoval ==
    [][ /\ (pc = Idle /\ pc' # pc)
           => /\ pc'.at = "coalesce"
              /\ ~blocks[pc'.i].is_free /\ blocks[pc'.i].process_id = pc'.pid
              /\ blocks'[pc'.i].is_free /\ blocks'[pc'.i].process_id = None
              /\ pc'.pid \in DOMAIN allocated_processes'
        /\ (pc.at = "coalesce" /\ pc' # pc)
           => /\ pc'.at = "del"
              /\ pc.pid \in DOMAIN allocated_processes
              /\ allocated_processes' = allocated_processes
              /\ \A j \in 1..(Len(blocks') - 1) :
                     ~(blocks'[j].is_free /\ blocks'[j + 1].is_free)
        /\ (pc.at = "del" /\ pc' # pc)
           => /\ pc' = Idle
              /\ last'.ok = TRUE
              /\ blocks' = blocks
              /\ pc.pid \in DOMAIN allocated_processes
              /\ pc.pid \notin DOMAIN allocated_processes' ]_vars

\* the coalescer has merged on both sides and the index entry of the
\* process being deallocated is still there
C25_Witness ==
    /\ pc.at = "del" /\ pc.merges = 2
    /\ pc.pid \in DOMAIN allocated_processes
    /\ \A j \in 1..Len(blocks) : blocks[j].process_id # pc.pid

\* --------------------------------------------------------------------- C27
AllDone == \A t \in DOMAIN workers : workers[t].pc = "done"
Asked == Len(workers) * workers[1].n
Written ==
    LET RECURSIVE Sum(_)
        Sum(t) == IF t = 0 THEN 0 ELSE workers[t].i + Sum(t - 1)
    IN  Sum(Len(workers))

\* C27: when T threads each perform N read-increment-write steps on
\* shared_counter inside counter_lock, the final value is exactly T*N for
\* every interleaving: at most one thread is inside the lock, the counter
\* is the number of writes made, and it is T*N once all threads are done.
C27_MutexExact ==
    running = "mutex_lock"
    => /\ \A t \in DOMAIN workers :
             workers[t].pc \in {"read", "write", "release"}
                => counter_lock = t
       /\ shared_counter = Written +
             (IF \E t \in DOMAIN workers : workers[t].pc = "release"
              THEN 1 ELSE 0)
       /\ AllDone => shared_counter = Asked

\* several threads have finished all their iterations under the lock
C27_Witness ==
    /\ running = "mutex_lock" /\ AllDone
    /\ Len(workers) = MaxThreads /\ workers[1].n = MaxIter
    /\ shared_counter = MaxThreads * MaxIter

\* --------------------------------------------------------------------- C28
\* C28: when T >= 2 threads each perform N read-increment-write steps on
\* shared_counter without the lock, the final value never exceeds T*N
\* (the counter is at most the number of writes made); the interleavings
\* that end strictly below T*N are the witness.
C28_NeverExceeds ==
    running = "race_condition"
    => /\ shared_counter <= Written
       /\ AllDone => shared_counter <= Asked

\* a lost update: all threads are done and the counter is below T*N
C28_Witness ==
    /\ running = "race_condition" /\ AllDone
    /\ Len(workers) >= 2
    /\ shared_counter < Asked

\* --------------------------------------------------------------------- C26
Quiet == \A c \in DOMAIN customers : customers[c].pc \in {"idle", "lock"}
Finished ==
    \A c \in DOMAIN customers :
        /\ customers[c].pc = "idle"
        /\ customers[c].calls = Len(customer_transactions)

\* C26: for every interleaving of concurrent deposit and withdraw calls on
\* one BankAccount each call's read-delay-write is atomic under the lock
\* (the thread inside holds the lock and writes from the balance that is
\* still current), so whenever no call is inside the lock the balance is
\* the initial balance plus all deposits minus all withdrawals that were
\* not refused (the ledger), the balance is never negative, and three
\* customers each depositing 100 then withdrawing 50 from 1000 end at 1150.
C26_BankAtomic ==
    BankRuns
    => /\ \A c \in DOMAIN customers :
             /\ customers[c].pc \in {"check", "read", "write", "unlock"}
                   => account.lock = c
             /\ customers[c].pc = "write"
                   => customers[c].current = account.balance
       /\ account.balance >= 0
       /\ Quiet => (account.lock = 0 /\ account.balance = ledger)
       /\ (running = "bank_transactions" /\ Finished)
             => account.balance = 1150

\* the three customers of the demonstration have finished
C26_Witness ==
    /\ running = "bank_transactions" /\ Finished
    /\ Len(customers) = 3
    /\ account.balance = DemoBalance + 3 * (DemoDeposit - DemoWithdraw)

\* a withdrawal was refused while another customer waits for the lock
C26_Refusal ==
    /\ running = "bank_account"
    /\ \E c, d \in DOMAIN customers :
          /\ customers[c].op = "withdraw" /\ customers[c].pc = "unlock"
          /\ customers[c].amount > account.balance
          /\ customers[d].pc = "lock"

\* --------------------------------------------------------------------- C29
Holders == {i \in DOMAIN sem_threads : sem_threads[i] = "holding"}

\* C29: in the semaphore demonstration with five threads and Semaphore(2)
\* at no time do more than two threads hold the resource, and every thread
\* eventually acquires and releases it, so the run ends with all threads
\* done and all permits back.
C29_SemaphoreLimit ==
    /\ [](running = "semaphore"
            => /\ Cardinality(Holders) <= 2
               /\ semaphore = 2 - Cardinality(Holders))
    /\ \A i \in SemIds : <>(sem_threads[i] = "holding")
    /\ \A i \in SemIds : <>[](sem_threads[i] = "done")
    /\ <>[](semaphore = 2)

\* two threads hold the resource, one is done and the other two wait
C29_Witness ==
    /\ running = "semaphore"
    /\ Cardinality(Holders) = 2
    /\ semaphore = 0
    /\ Cardinality({i \in SemIds : sem_threads[i] = "waiting"}) = 2
    /\ Cardinality({i \in SemIds : sem_threads[i] = "done"}) = 1

\* --------------------------------------------------------------------- C30
\* the items consumed so far are Item-0, Item-1, ... in this order, each
\* once and each by one of the two consumers, and the queue holds the
\* items produced and not yet consumed, in production order; an item in
\* the hand of a consumer is the last one it took
InProductionOrder ==
    /\ \A k \in 1..Len(consumed) :
          /\ consumed[k].item = Item(k - 1)
          /\ consumed[k].by \in ConsumerNames
    /\ Len(consumed) <= 5
    /\ Len(consumed) + Len(buffer.queue) =
          p_thread.i + (IF p_thread.pc = "sleep" THEN 1 ELSE 0)
    /\ buffer.unfinished_tasks = Len(buffer.queue) +
          Cardinality({name \in ConsumerNames :
                          c_threads[name].pc = "task_done"})
    /\ \A k \in 1..Len(buffer.queue) :
          buffer.queue[k] = Item(Len(consumed) + k - 1)

\* C30: in the producer-consumer demonstration the bounded buffer never
\* holds more than 3 items, each of the 5 produced items is consumed
\* exactly once by exactly one of the two consumers and items leave the
\* buffer in production order, and the main thread's wait (producer join
\* then buffer.join) eventually returns.
C30_ProducerConsumer ==
    /\ [](running = "producer_consumer"
            => /\ Len(buffer.queue) <= 3
               /\ InProductionOrder
               /\ main = "returned"
                     => /\ Len(consumed) = 5
                        /\ buffer.queue = <<>>
                        /\ \A name \in ConsumerNames :
                              c_threads[name].pc # "task_done")
    /\ <>[](main = "returned")

\* the main thread's wait has returned after both consumers took part and
\* one of them has left its loop on the timeout
C30_Witness ==
    /\ running = "producer_consumer"
    /\ main = "returned"
    /\ Len(consumed) = 5
    /\ \E k, l \in 1..Len(consumed) :
          consumed[k].by = "C0" /\ consumed[l].by = "C1"
    /\ \E name \in ConsumerNames : c_threads[name].pc = "exited"

\* the buffer is full and the producer waits to put the next item
C30_Full ==
    /\ running = "producer_consumer"
    /\ Len(buffer.queue) = 3
    /\ p_thread.pc = "put"
    /\ consumed # <<>>

\* a consumer leaves its loop on the timeout before the last item is put
C30_EarlyExit ==
    /\ running = "producer_consumer"
    /\ p_thread.pc # "done" /\ p_thread.i < 4
    /\ \E name \in ConsumerNames : c_threads[name].pc = "exited"

\* --------------------------------------------------------------------- C31
\* no thread is between the two list updates of a join or of a removal
ListsQuiet ==
    \A f \in UNION {Elems(handlers[c]) : c \in DOMAIN handlers} :
        /\ f.fn = "handle_client" => f.pc # "append_client"
        /\ f.fn = "remove_client" => f.pc \notin {"lookup", "nickremove"}

\* C31: in the chat server, under any interleaving of handle_client
\* threads joining and leaving (clients may share a nickname), whenever no
\* thread is between its two list updates clients and nicknames have equal
\* length and nicknames[i] is the nickname registered by clients[i], and
\* remove_client announces and removes the nickname of the connection that
\* left.
C31_ListsAligned ==
    ChatRuns
    => /\ ListsQuiet
          => /\ Len(clients) = Len(nicknames)
             /\ \A i \in 1..Len(clients) :
                   nicknames[i] = sockets[clients[i]].nickname
       /\ \A f \in UNION {Elems(handlers[c]) : c \in DOMAIN handlers} :
             (f.fn = "remove_client" /\ f.pc \in {"nickremove", "announce", "return"})
                => f.nickname = sockets[f.conn].nickname

\* --------------------------------------------------------------------- C32
\* C32: a chat message received from a registered client is relayed to
\* every other connection that is in clients from the start to the end of
\* the relay and never back to its sender, and a connection whose send
\* failed during the relay is no longer in clients when the relay ends.
C32_RelayReachesOthers ==
    (ChatRuns /\ relayed # Nothing)
    => /\ relayed.missed = {}
       /\ ~relayed.echoed
       /\ relayed.kept = {}

\* C33: in the task API, under any interleaving of create and delete
\* requests, every created task gets an id that was never given before:
\* the ids given out increase strictly in the order the tasks were
\* appended (so no id is given twice and the id of a deleted task is not
\* given again), and the tasks of the list have pairwise distinct ids
C33_IdsNeverReused ==
    TasksRun =>
        /\ \A i, j \in 1..Len(assigned) : i < j => assigned[i] < assigned[j]
        /\ \A i, j \in 1..Len(tasks) : i # j => tasks[i].id # tasks[j].id
====
